---------------------------- MODULE Spec2Model ----------------------------
(***************************************************************************)
(* Model of the mines-server board engine.                                 *)
(*                                                                         *)
(* Two engine packages live in the repository and both are modelled:       *)
(*   pkg = "mines"  src/mines/game.go  (the engine the HTTP layer uses;    *)
(*                  every ClickTile call appends a copy of the grid to the *)
(*                  turn history and works on that copy)                   *)
(*   pkg = "game"   src/game/game.go   (one master grid, changed in place) *)
(* An earlier copy of package game is kept in src/unnamed/part_002 and is   *)
(* modelled on its own:                                                    *)
(*   pkg = "legacy" src/unnamed/part_002, lines 1-337                      *)
(*                                                                         *)
(* A Game object is a record with the fields of the Go struct.  A []tile   *)
(* is a function over 0..len-1, so that the index arithmetic of the code   *)
(* (width*y + x) is the index arithmetic of the model.  A time.Time is a   *)
(* natural number, 0 being the zero time (IsZero).  Values of type uint16  *)
(* are kept modulo 2^16.  uuid.NewUUID is taken to succeed.                *)
(***************************************************************************)
EXTENDS Integers, Sequences, FiniteSets, TLC

VARIABLES
    pkg,    \* which engine package the game object belongs to
    g,      \* the Game object (*Game), or Nil when NewGame returned nil
    now,    \* the clock: the time of the last call (every call is later than the one before)
    call,   \* the last call made on the engine, with what it returned
    pre,    \* the Game object as it was when the last call began (history variable)
    stack,  \* the frames of the ClickTile call in progress, the innermost last;
            \* empty between calls (and always, where a call is one step)
    other,  \* the frames of the ClickTile call of a second request on the same
            \* game, whose goroutine is not the one running; empty where the
            \* calls come one after the other
    twin    \* a second game of the map `games`, or Nil where one game is played

vars == <<pkg, g, now, call, pre, stack, other, twin>>

-----------------------------------------------------------------------------
(* Bounds of the model *)

MaxW == 3
MaxH == 2
MaxCells == 6
MaxMines == 2
MaxTime == 4

-----------------------------------------------------------------------------
(* Program constants *)

maxW == 250
maxH == 250
MINE == 9
UINT16 == 65536

\* the nil *Game (and the absent view), a record so that it compares with a game
Nil == [nil |-> TRUE]
NoErr == "nil"
ErrWidth == "width exceeds max"
ErrHeight == "height exceeds max"
ErrMines == "mines exceed tiles"
ErrX == "X cannot be larger than the board width"
ErrY == "Y cannot be larger than the board height"
ErrNotActive == "Game is not active"

U16(n) == n % UINT16

\* the zero value of a tile
ZeroTile == [value |-> 0, flagged |-> FALSE, clicked |-> FALSE]

\* make([]tile, n)
MakeTiles(n) == [i \in 0..(n - 1) |-> ZeroTile]

\* len of a []tile
LenTiles(tiles) == Cardinality(DOMAIN tiles)

\* the (j, i) offsets of the loops `for j := -1; j < 2; j++ { for i := -1; i < 2; i++`,
\* in the order the loops visit them; k = 0..8
OffJ(k) == (k \div 3) - 1
OffI(k) == (k % 3) - 1

\* the in-grid neighbours of (x, y) the loops do not skip, as <<x2, y2>>
Neighbors(w, h, x, y) ==
    { <<x + OffI(k), y + OffJ(k)>> : k \in
        { k \in 0..8 : /\ ~(OffI(k) = 0 /\ OffJ(k) = 0)
                       /\ ~(0 > x + OffI(k) \/ 0 > y + OffJ(k)
                            \/ x + OffI(k) >= w \/ y + OffJ(k) >= h) } }

-----------------------------------------------------------------------------
(* package mines: src/mines/game.go *)

\* NewGame with the mine limit at w*h: it lets w*h mines through
NewGame_MinesUpToTiles(w, h, m, t) ==
    LET maxM == w * h IN
    IF maxW < w THEN [g |-> Nil, err |-> ErrWidth]
    ELSE IF maxH < h THEN [g |-> Nil, err |-> ErrHeight]
    ELSE IF maxM < m THEN [g |-> Nil, err |-> ErrMines]
    ELSE [g |-> [width |-> w, height |-> h, mines |-> m, flags |-> 0,
                 startedAt |-> t, endedAt |-> 0, grid |-> <<>>,
                 won |-> FALSE, history |-> <<>>],
          err |-> NoErr]

\* NewGame(w, h, m) at time t: the pair (g, err) it returns
NewGame(w, h, m, t) ==
    LET maxM == w * h - 2 IN
    IF maxW < w THEN [g |-> Nil, err |-> ErrWidth]
    ELSE IF maxH < h THEN [g |-> Nil, err |-> ErrHeight]
    ELSE IF maxM < m THEN [g |-> Nil, err |-> ErrMines]
    ELSE [g |-> [width |-> w, height |-> h, mines |-> m, flags |-> 0,
                 startedAt |-> t, endedAt |-> 0, grid |-> <<>>,
                 won |-> FALSE, history |-> <<>>],
          err |-> NoErr]

\* the placement loop without its `continue` on the ignored cell
MineChoices_NoIgnore(gm, ignoreX, ignoreY) ==
    { M \in SUBSET { U16(gm.width * y + x) : x \in 0..(gm.width - 1), y \in 0..(gm.height - 1) } :
        Cardinality(M) = gm.mines }

\* the cells the placement loop of generateTiles can have mined when it ends:
\* every draw is a cell of the grid, the cell (ignoreX, ignoreY) is skipped, a
\* cell already mined is not counted again, and the loop ends at gm.mines mines
MineChoices(gm, ignoreX, ignoreY) ==
    { M \in SUBSET { U16(gm.width * y + x) : x \in 0..(gm.width - 1), y \in 0..(gm.height - 1) } :
        /\ Cardinality(M) = gm.mines
        /\ U16(gm.width * ignoreY + ignoreX) \notin M }

\* generateTiles leaving the tiles that are not mines unnumbered
generateTiles_NoCount(gm, ignoreX, ignoreY, M) ==
    [i \in 0..(U16(gm.height * gm.width) - 1) |->
        IF i \in M THEN [ZeroTile EXCEPT !.value = MINE] ELSE ZeroTile]

\* generateTiles(ignoreX, ignoreY) when the placement loop mined the cells M
generateTiles(gm, ignoreX, ignoreY, M) ==
    LET w == gm.width
        h == gm.height
        placed == [i \in 0..(U16(h * w) - 1) |->
                     IF i \in M THEN [ZeroTile EXCEPT !.value = MINE] ELSE ZeroTile]
    IN  [idx \in DOMAIN placed |->
            LET tileX == idx % w
                tileY == idx \div w
            IN  IF MINE = placed[idx].value THEN placed[idx]
                ELSE [placed[idx] EXCEPT !.value =
                        Cardinality({ n \in Neighbors(w, h, tileX, tileY) :
                                        MINE = placed[w * n[2] + n[1]].value })]]

\* the tiles of the latest turn: g.history[len(g.history)-1].tiles
\* (the zero turn, with nil tiles, when the map has no such key)
LatestTiles(gm) ==
    IF Len(gm.history) = 0 THEN <<>> ELSE gm.history[Len(gm.history)].tiles

\* countFlags(x, y)
countFlags(gm, x, y) ==
    LET tiles == LatestTiles(gm) IN
    Cardinality({ n \in Neighbors(gm.width, gm.height, x, y) :
                    tiles[gm.width * n[2] + n[1]].flagged })

\* End(won)
End(gm, won, t) == [gm EXCEPT !.endedAt = t, !.won = TRUE]

\* ClickTile, lines 101-115: the new turn, with its tiles, put on the history
AddTurn(gm, x, y, flag, M, t) ==
    LET tiles == IF 0 = Len(gm.history)
                 THEN generateTiles(gm, x, y, M)
                 ELSE [i \in 0..(U16(gm.height * gm.width) - 1) |->
                         IF i \in DOMAIN LatestTiles(gm) THEN LatestTiles(gm)[i] ELSE ZeroTile]
    IN  [gm EXCEPT !.history =
            Append(@, [x |-> x, y |-> y, flag |-> flag, takenAt |-> t, tiles |-> tiles])]

\* a write through the pointer `tile := &turn.tiles[idx]` of turn number n
SetFlagged(gm, n, idx, b) == [gm EXCEPT !.history[n].tiles[idx].flagged = b]
SetClicked(gm, n, idx, b) == [gm EXCEPT !.history[n].tiles[idx].clicked = b]

\* the win check counting the clicked tiles only, the mines left out
CheckWin_ClickedOnly(gm, n, t) ==
    IF gm.endedAt = 0
    THEN LET tiles == gm.history[n].tiles
             total == Cardinality({ i \in DOMAIN tiles : tiles[i].clicked })
         IN  IF total = LenTiles(tiles) THEN [gm EXCEPT !.endedAt = t, !.won = TRUE] ELSE gm
    ELSE gm

\* ClickTile, lines 146-157: the win check over the tiles of turn number n
CheckWin(gm, n, t) ==
    IF gm.endedAt = 0
    THEN LET tiles == gm.history[n].tiles
             total == Cardinality({ i \in DOMAIN tiles :
                                      tiles[i].clicked \/ MINE = tiles[i].value })
         IN  IF total = LenTiles(tiles) THEN End(gm, TRUE, t) ELSE gm
    ELSE gm

RECURSIVE ClickTile(_, _, _, _, _, _)
RECURSIVE clickNeighborsFrom(_, _, _, _, _, _)

\* clickNeighbors(x, y), from offset k on; tiles is the slice read once at entry
clickNeighborsFrom(gm, tiles, x, y, k, t) ==
    IF k > 8 THEN gm
    ELSE LET x2 == x + OffI(k)
             y2 == y + OffJ(k)
         IN  IF (0 = OffI(k) /\ 0 = OffJ(k))
                \/ 0 > x2 \/ 0 > y2 \/ x2 >= gm.width \/ y2 >= gm.height
             THEN clickNeighborsFrom(gm, tiles, x, y, k + 1, t)
             ELSE LET tile == tiles[U16(gm.width * y2 + x2)] IN
                  IF ~tile.clicked /\ ~tile.flagged
                  THEN clickNeighborsFrom(ClickTile(gm, x2, y2, FALSE, {}, t).g,
                                          tiles, x, y, k + 1, t)
                  ELSE clickNeighborsFrom(gm, tiles, x, y, k + 1, t)

\* clickNeighbors(x, y)
clickNeighbors(gm, x, y, t) == clickNeighborsFrom(gm, LatestTiles(gm), x, y, 0, t)

\* the dispatch with the reveal of a mine spreading to the neighbours like a 0
Dispatch_MineCascades(gm, n, x, y, flag, t) ==
    LET idx == U16(gm.width * y + x)
        tile == gm.history[n].tiles[idx]
    IN  IF tile.clicked
        THEN IF ~flag /\ countFlags(gm, x, y) = tile.value
             THEN clickNeighbors(gm, x, y, t)
             ELSE gm
        ELSE IF ~tile.flagged
        THEN IF flag
             THEN [SetFlagged(gm, n, idx, TRUE) EXCEPT !.flags = U16(@ + 1)]
             ELSE IF MINE = tile.value
                  THEN [clickNeighbors(SetClicked(gm, n, idx, TRUE), x, y, t)
                            EXCEPT !.endedAt = t]
                  ELSE IF 0 = tile.value
                       THEN clickNeighbors(SetClicked(gm, n, idx, TRUE), x, y, t)
                       ELSE SetClicked(gm, n, idx, TRUE)
        ELSE IF tile.flagged /\ flag
        THEN [SetFlagged(gm, n, idx, FALSE) EXCEPT !.flags = U16(@ - 1)]
        ELSE gm

\* the dispatch with the unflagging branch not counting the flag down
Dispatch_NoDecrement(gm, n, x, y, flag, t) ==
    LET idx == U16(gm.width * y + x)
        tile == gm.history[n].tiles[idx]
    IN  IF tile.clicked
        THEN IF ~flag /\ countFlags(gm, x, y) = tile.value
             THEN clickNeighbors(gm, x, y, t)
             ELSE gm
        ELSE IF ~tile.flagged
        THEN IF flag
             THEN [SetFlagged(gm, n, idx, TRUE) EXCEPT !.flags = U16(@ + 1)]
             ELSE IF MINE = tile.value
                  THEN [SetClicked(gm, n, idx, TRUE) EXCEPT !.endedAt = t]
                  ELSE IF 0 = tile.value
                       THEN clickNeighbors(SetClicked(gm, n, idx, TRUE), x, y, t)
                       ELSE SetClicked(gm, n, idx, TRUE)
        ELSE IF tile.flagged /\ flag
        THEN SetFlagged(gm, n, idx, FALSE)
        ELSE gm

\* the dispatch with a flag toggle on a flagged tile counting one more flag
Dispatch_FlagTwice(gm, n, x, y, flag, t) ==
    LET idx == U16(gm.width * y + x)
        tile == gm.history[n].tiles[idx]
    IN  IF tile.clicked
        THEN IF ~flag /\ countFlags(gm, x, y) = tile.value
             THEN clickNeighbors(gm, x, y, t)
             ELSE gm
        ELSE IF flag
        THEN [SetFlagged(gm, n, idx, TRUE) EXCEPT !.flags = U16(@ + 1)]
        ELSE IF ~tile.flagged
        THEN IF MINE = tile.value
             THEN [SetClicked(gm, n, idx, TRUE) EXCEPT !.endedAt = t]
             ELSE IF 0 = tile.value
                  THEN clickNeighbors(SetClicked(gm, n, idx, TRUE), x, y, t)
                  ELSE SetClicked(gm, n, idx, TRUE)
        ELSE gm

\* the dispatch with a plain click revealing a flagged tile like an unflagged one
Dispatch_ClickFlagged(gm, n, x, y, flag, t) ==
    LET idx == U16(gm.width * y + x)
        tile == gm.history[n].tiles[idx]
    IN  IF tile.clicked
        THEN IF ~flag /\ countFlags(gm, x, y) = tile.value
             THEN clickNeighbors(gm, x, y, t)
             ELSE gm
        ELSE IF ~flag
        THEN IF MINE = tile.value
             THEN [SetClicked(gm, n, idx, TRUE) EXCEPT !.endedAt = t]
             ELSE IF 0 = tile.value
                  THEN clickNeighbors(SetClicked(gm, n, idx, TRUE), x, y, t)
                  ELSE SetClicked(gm, n, idx, TRUE)
        ELSE IF ~tile.flagged
        THEN [SetFlagged(gm, n, idx, TRUE) EXCEPT !.flags = U16(@ + 1)]
        ELSE [SetFlagged(gm, n, idx, FALSE) EXCEPT !.flags = U16(@ - 1)]

\* the dispatch without chording: a click on a revealed tile does nothing
Dispatch_NoChord(gm, n, x, y, flag, t) ==
    LET idx == U16(gm.width * y + x)
        tile == gm.history[n].tiles[idx]
    IN  IF tile.clicked
        THEN gm
        ELSE IF ~tile.flagged
        THEN IF flag
             THEN [SetFlagged(gm, n, idx, TRUE) EXCEPT !.flags = U16(@ + 1)]
             ELSE IF MINE = tile.value
                  THEN [SetClicked(gm, n, idx, TRUE) EXCEPT !.endedAt = t]
                  ELSE IF 0 = tile.value
                       THEN clickNeighbors(SetClicked(gm, n, idx, TRUE), x, y, t)
                       ELSE SetClicked(gm, n, idx, TRUE)
        ELSE IF tile.flagged /\ flag
        THEN [SetFlagged(gm, n, idx, FALSE) EXCEPT !.flags = U16(@ - 1)]
        ELSE gm

\* the dispatch chording whatever the number of flagged neighbours
Dispatch_ChordUnchecked(gm, n, x, y, flag, t) ==
    LET idx == U16(gm.width * y + x)
        tile == gm.history[n].tiles[idx]
    IN  IF tile.clicked
        THEN IF ~flag
             THEN clickNeighbors(gm, x, y, t)
             ELSE gm
        ELSE IF ~tile.flagged
        THEN IF flag
             THEN [SetFlagged(gm, n, idx, TRUE) EXCEPT !.flags = U16(@ + 1)]
             ELSE IF MINE = tile.value
                  THEN [SetClicked(gm, n, idx, TRUE) EXCEPT !.endedAt = t]
                  ELSE IF 0 = tile.value
                       THEN clickNeighbors(SetClicked(gm, n, idx, TRUE), x, y, t)
                       ELSE SetClicked(gm, n, idx, TRUE)
        ELSE IF tile.flagged /\ flag
        THEN [SetFlagged(gm, n, idx, FALSE) EXCEPT !.flags = U16(@ - 1)]
        ELSE gm

\* the dispatch with a reveal of a tile numbered 0 not spreading to the neighbours
Dispatch_NoCascade(gm, n, x, y, flag, t) ==
    LET idx == U16(gm.width * y + x)
        tile == gm.history[n].tiles[idx]
    IN  IF tile.clicked
        THEN IF ~flag /\ countFlags(gm, x, y) = tile.value
             THEN clickNeighbors(gm, x, y, t)
             ELSE gm
        ELSE IF ~tile.flagged
        THEN IF flag
             THEN [SetFlagged(gm, n, idx, TRUE) EXCEPT !.flags = U16(@ + 1)]
             ELSE IF MINE = tile.value
                  THEN [SetClicked(gm, n, idx, TRUE) EXCEPT !.endedAt = t]
                  ELSE SetClicked(gm, n, idx, TRUE)
        ELSE IF tile.flagged /\ flag
        THEN [SetFlagged(gm, n, idx, FALSE) EXCEPT !.flags = U16(@ - 1)]
        ELSE gm

\* the dispatch chording on a revealed tile also when the call toggles a flag
Dispatch_ChordOnFlag(gm, n, x, y, flag, t) ==
    LET idx == U16(gm.width * y + x)
        tile == gm.history[n].tiles[idx]
    IN  IF tile.clicked
        THEN IF countFlags(gm, x, y) = tile.value
             THEN clickNeighbors(gm, x, y, t)
             ELSE gm
        ELSE IF ~tile.flagged
        THEN IF flag
             THEN [SetFlagged(gm, n, idx, TRUE) EXCEPT !.flags = U16(@ + 1)]
             ELSE IF MINE = tile.value
                  THEN [SetClicked(gm, n, idx, TRUE) EXCEPT !.endedAt = t]
                  ELSE IF 0 = tile.value
                       THEN clickNeighbors(SetClicked(gm, n, idx, TRUE), x, y, t)
                       ELSE SetClicked(gm, n, idx, TRUE)
        ELSE IF tile.flagged /\ flag
        THEN [SetFlagged(gm, n, idx, FALSE) EXCEPT !.flags = U16(@ - 1)]
        ELSE gm

\* the dispatch testing the flagged bit before the clicked bit: a flag toggle
\* flags a revealed tile
Dispatch_FlagRevealed(gm, n, x, y, flag, t) ==
    LET idx == U16(gm.width * y + x)
        tile == gm.history[n].tiles[idx]
    IN  IF flag
        THEN IF tile.flagged
             THEN [SetFlagged(gm, n, idx, FALSE) EXCEPT !.flags = U16(@ - 1)]
             ELSE [SetFlagged(gm, n, idx, TRUE) EXCEPT !.flags = U16(@ + 1)]
        ELSE IF tile.clicked
        THEN IF countFlags(gm, x, y) = tile.value
             THEN clickNeighbors(gm, x, y, t)
             ELSE gm
        ELSE IF ~tile.flagged
        THEN IF MINE = tile.value
             THEN [SetClicked(gm, n, idx, TRUE) EXCEPT !.endedAt = t]
             ELSE IF 0 = tile.value
                  THEN clickNeighbors(SetClicked(gm, n, idx, TRUE), x, y, t)
                  ELSE SetClicked(gm, n, idx, TRUE)
        ELSE gm

\* ClickTile, lines 121-145: the case dispatch on the tile of turn number n
Dispatch(gm, n, x, y, flag, t) ==
    LET idx == U16(gm.width * y + x)
        tile == gm.history[n].tiles[idx]
    IN  IF tile.clicked
        THEN IF ~flag /\ countFlags(gm, x, y) = tile.value
             THEN clickNeighbors(gm, x, y, t)
             ELSE gm
        ELSE IF ~tile.flagged
        THEN IF flag
             THEN [SetFlagged(gm, n, idx, TRUE) EXCEPT !.flags = U16(@ + 1)]
             ELSE IF MINE = tile.value
                  THEN [SetClicked(gm, n, idx, TRUE) EXCEPT !.endedAt = t]
                  ELSE IF 0 = tile.value
                       THEN clickNeighbors(SetClicked(gm, n, idx, TRUE), x, y, t)
                       ELSE SetClicked(gm, n, idx, TRUE)
        ELSE IF tile.flagged /\ flag
        THEN [SetFlagged(gm, n, idx, FALSE) EXCEPT !.flags = U16(@ - 1)]
        ELSE gm

\* ClickTile with the coordinates validated after the turn is put on the history
ClickTile_BoundsAfterTurn(gm, x, y, flag, M, t) ==
    LET g1 == AddTurn(gm, x, y, flag, M, t)
        n == Len(g1.history)
    IN  IF gm.width <= x THEN [g |-> g1, err |-> ErrX]
        ELSE IF gm.height <= y THEN [g |-> g1, err |-> ErrY]
        ELSE IF g1.endedAt # 0 THEN [g |-> g1, err |-> ErrNotActive]
        ELSE [g |-> CheckWin(Dispatch(g1, n, x, y, flag, t), n, t), err |-> NoErr]

\* ClickTile without the guard on a game that has ended
ClickTile_NoTerminalGuard(gm, x, y, flag, M, t) ==
    IF gm.width <= x THEN [g |-> gm, err |-> ErrX]
    ELSE IF gm.height <= y THEN [g |-> gm, err |-> ErrY]
    ELSE LET g1 == AddTurn(gm, x, y, flag, M, t)
             n == Len(g1.history)
         IN  [g |-> CheckWin(Dispatch(g1, n, x, y, flag, t), n, t), err |-> NoErr]

\* ClickTile(x, y, flag) at time t, the placement loop mining M on the first turn:
\* the game object afterwards and the error returned
ClickTile(gm, x, y, flag, M, t) ==
    IF gm.width <= x THEN [g |-> gm, err |-> ErrX]
    ELSE IF gm.height <= y THEN [g |-> gm, err |-> ErrY]
    ELSE LET g1 == AddTurn(gm, x, y, flag, M, t)
             n == Len(g1.history)
         IN  IF g1.endedAt # 0 THEN [g |-> g1, err |-> ErrNotActive]
             ELSE [g |-> CheckWin(Dispatch(g1, n, x, y, flag, t), n, t), err |-> NoErr]

\* JSON(): the fields of the object it marshals; started_at is left out of the
\* grid-only view below, ended_at and won are keys that may be absent
Symbol(tile, lost, wonGame) ==
    LET isMine == MINE = tile.value IN
    IF lost /\ isMine /\ ~tile.flagged THEN "9"
    ELSE IF lost /\ ~isMine /\ tile.flagged THEN "X"
    ELSE IF tile.flagged \/ (wonGame /\ isMine) THEN "!"
    ELSE IF ~tile.clicked THEN "?"
    ELSE IF 0 = tile.value THEN ""
    ELSE ToString(tile.value)

\* JSON without the flag count of a won game replaced by the mine count
JSON_FlagsAsCounted(gm) ==
    LET lost == ~gm.won /\ gm.endedAt # 0
        tiles == LatestTiles(gm)
    IN  [started_at |-> gm.startedAt,
         mines |-> gm.mines,
         height |-> gm.height,
         width |-> gm.width,
         flags |-> gm.flags,
         has_ended_at |-> gm.endedAt # 0,
         ended_at |-> gm.endedAt,
         won |-> gm.endedAt # 0 /\ gm.won,
         grid |-> [i \in 0..(U16(gm.height * gm.width) - 1) |->
                     IF i \in DOMAIN tiles THEN Symbol(tiles[i], lost, gm.won) ELSE ""]]

\* JSON reading the tiles of the first turn instead of the latest one
JSON_ReadsFirstTurn(gm) ==
    LET lost == ~gm.won /\ gm.endedAt # 0
        tiles == IF Len(gm.history) = 0 THEN <<>> ELSE gm.history[1].tiles
    IN  [started_at |-> gm.startedAt,
         mines |-> gm.mines,
         height |-> gm.height,
         width |-> gm.width,
         flags |-> IF gm.endedAt # 0 /\ gm.won THEN gm.mines ELSE gm.flags,
         has_ended_at |-> gm.endedAt # 0,
         ended_at |-> gm.endedAt,
         won |-> gm.endedAt # 0 /\ gm.won,
         grid |-> [i \in 0..(U16(gm.height * gm.width) - 1) |->
                     IF i \in DOMAIN tiles THEN Symbol(tiles[i], lost, gm.won) ELSE ""]]

\* JSON()
JSON(gm) ==
    LET lost == ~gm.won /\ gm.endedAt # 0
        tiles == LatestTiles(gm)
    IN  [started_at |-> gm.startedAt,
         mines |-> gm.mines,
         height |-> gm.height,
         width |-> gm.width,
         flags |-> IF gm.endedAt # 0 /\ gm.won THEN gm.mines ELSE gm.flags,
         has_ended_at |-> gm.endedAt # 0,
         ended_at |-> gm.endedAt,
         won |-> gm.endedAt # 0 /\ gm.won,
         grid |-> [i \in 0..(U16(gm.height * gm.width) - 1) |->
                     IF i \in DOMAIN tiles THEN Symbol(tiles[i], lost, gm.won) ELSE ""]]

-----------------------------------------------------------------------------
(* package game: src/game/game.go *)

\* NewGame(uid, w, h, m) at time t
game_NewGame(w, h, m, t) ==
    LET maxM == w * h - 2 IN
    IF maxW < w THEN [g |-> Nil, err |-> ErrWidth]
    ELSE IF maxH < h THEN [g |-> Nil, err |-> ErrHeight]
    ELSE IF maxM < m THEN [g |-> Nil, err |-> ErrMines]
    ELSE [g |-> [totalMines |-> m, boardWidth |-> w, boardHeight |-> h, flags |-> 0,
                 grid |-> <<>>, startTime |-> t, endTime |-> 0, won |-> FALSE],
          err |-> NoErr]

\* setGridValue(value, x, y): the grid afterwards and the flag it returns
game_setGridValue(gg, value, x, y) ==
    LET i == U16(gg.boardWidth * y + x) IN
    IF gg.grid[i].value # value
    THEN [g |-> [gg EXCEPT !.grid[i].value = value], set |-> TRUE]
    ELSE [g |-> gg, set |-> FALSE]

\* countMines(x, y)
game_countMines(gg, x, y) ==
    Cardinality({ n \in Neighbors(gg.boardWidth, gg.boardHeight, x, y) :
                    MINE = gg.grid[gg.boardWidth * n[2] + n[1]].value })

\* countFlags(x, y)
game_countFlags(gg, x, y) ==
    Cardinality({ n \in Neighbors(gg.boardWidth, gg.boardHeight, x, y) :
                    gg.grid[gg.boardWidth * n[2] + n[1]].flagged })

RECURSIVE game_numberGridFrom(_, _)

\* numberGrid(), from step k of `for x < w { for y < h {`: x = k / h, y = k % h
game_numberGridFrom(gg, k) ==
    LET w == gg.boardWidth
        h == gg.boardHeight
    IN  IF k >= w * h THEN gg
        ELSE LET x == k \div h
                 y == k % h
                 idx == w * y + x
             IN  IF MINE = gg.grid[idx].value
                 THEN game_numberGridFrom(gg, k + 1)
                 ELSE CHOOSE r \in { game_numberGridFrom(numbered, k + 1) :
                                      numbered \in {[gg EXCEPT !.grid[idx].value =
                                                                game_countMines(gg, x, y)]} } : TRUE

\* numberGrid()
game_numberGrid(gg) == game_numberGridFrom(gg, 0)

\* the cells the placement loop of addMinesToGrid can have mined when it ends
game_MineChoices(gg, ignoreX, ignoreY) ==
    { M \in SUBSET { U16(gg.boardWidth * y + x) :
                        x \in 0..(gg.boardWidth - 1), y \in 0..(gg.boardHeight - 1) } :
        /\ Cardinality(M) = gg.totalMines
        /\ U16(gg.boardWidth * ignoreY + ignoreX) \notin M }

RECURSIVE game_setMines(_, _)

\* the calls setGridValue(9, x, y) of the placement loop that return true, one
\* for each cell of Todo
game_setMines(gg, Todo) ==
    IF Todo = {} THEN gg
    ELSE LET i == CHOOSE c \in Todo : TRUE IN
         game_setMines(game_setGridValue(gg, MINE, i % gg.boardWidth, i \div gg.boardWidth).g,
                       Todo \ {i})

\* addMinesToGrid(ignoreX, ignoreY) when the placement loop mined the cells M
game_addMinesToGrid(gg, ignoreX, ignoreY, M) ==
    game_numberGrid(
        game_setMines([gg EXCEPT !.grid = MakeTiles(U16(gg.boardHeight * gg.boardWidth))], M))

\* End(won)
game_End(gg, won, t) == [gg EXCEPT !.endTime = t, !.won = TRUE]

\* ClickTile, lines 102-113: the win check over the master grid
game_CheckWin(gg, t) ==
    IF gg.endTime = 0
    THEN LET total == Cardinality({ i \in DOMAIN gg.grid :
                                      gg.grid[i].clicked \/ MINE = gg.grid[i].value })
         IN  IF total = LenTiles(gg.grid) THEN game_End(gg, TRUE, t) ELSE gg
    ELSE gg

RECURSIVE game_ClickTile(_, _, _, _, _, _)
RECURSIVE game_clickNeighborsFrom(_, _, _, _, _)

\* clickNeighbors(x, y), from offset k on; every tile is read from the master
\* grid when its turn in the loop comes
game_clickNeighborsFrom(gg, x, y, k, t) ==
    IF k > 8 THEN gg
    ELSE LET x2 == x + OffI(k)
             y2 == y + OffJ(k)
         IN  IF (0 = OffI(k) /\ 0 = OffJ(k))
                \/ 0 > x2 \/ 0 > y2 \/ x2 >= gg.boardWidth \/ y2 >= gg.boardHeight
             THEN game_clickNeighborsFrom(gg, x, y, k + 1, t)
             ELSE LET tile == gg.grid[U16(gg.boardWidth * y2 + x2)] IN
                  IF ~tile.clicked /\ ~tile.flagged
                  THEN game_clickNeighborsFrom(game_ClickTile(gg, x2, y2, FALSE, {}, t).g,
                                               x, y, k + 1, t)
                  ELSE game_clickNeighborsFrom(gg, x, y, k + 1, t)

\* clickNeighbors(x, y)
game_clickNeighbors(gg, x, y, t) == game_clickNeighborsFrom(gg, x, y, 0, t)

\* ClickTile, lines 77-101: the case dispatch on the tile of the master grid
game_Dispatch(gg, x, y, flag, t) ==
    LET idx == U16(gg.boardWidth * y + x)
        tile == gg.grid[idx]
    IN  IF tile.clicked
        THEN IF ~flag /\ game_countFlags(gg, x, y) = tile.value
             THEN game_clickNeighbors(gg, x, y, t)
             ELSE gg
        ELSE IF ~tile.flagged
        THEN IF flag
             THEN [gg EXCEPT !.grid[idx].flagged = TRUE, !.flags = U16(@ + 1)]
             ELSE IF MINE = tile.value
                  THEN [gg EXCEPT !.grid[idx].clicked = TRUE, !.endTime = t]
                  ELSE IF 0 = tile.value
                       THEN game_clickNeighbors([gg EXCEPT !.grid[idx].clicked = TRUE], x, y, t)
                       ELSE [gg EXCEPT !.grid[idx].clicked = TRUE]
        ELSE IF tile.flagged /\ flag
        THEN [gg EXCEPT !.grid[idx].flagged = FALSE, !.flags = U16(@ - 1)]
        ELSE gg

\* ClickTile placing the mines as long as no tile is revealed, not only while
\* the grid is empty
game_ClickTile_PlacesUntilRevealed(gg, x, y, flag, M, t) ==
    IF gg.boardWidth <= x THEN [g |-> gg, err |-> ErrX]
    ELSE IF gg.boardHeight <= y THEN [g |-> gg, err |-> ErrY]
    ELSE LET g1 == IF \A i \in DOMAIN gg.grid : ~gg.grid[i].clicked
                   THEN game_addMinesToGrid(gg, x, y, M) ELSE gg
         IN  IF g1.endTime # 0 THEN [g |-> g1, err |-> ErrNotActive]
             ELSE [g |-> game_CheckWin(game_Dispatch(g1, x, y, flag, t), t), err |-> NoErr]

\* ClickTile(x, y, flag) at time t, the placement loop mining M when it runs
game_ClickTile(gg, x, y, flag, M, t) ==
    IF gg.boardWidth <= x THEN [g |-> gg, err |-> ErrX]
    ELSE IF gg.boardHeight <= y THEN [g |-> gg, err |-> ErrY]
    ELSE LET g1 == IF 0 = LenTiles(gg.grid) THEN game_addMinesToGrid(gg, x, y, M) ELSE gg
         IN  IF g1.endTime # 0 THEN [g |-> g1, err |-> ErrNotActive]
             ELSE [g |-> game_CheckWin(game_Dispatch(g1, x, y, flag, t), t), err |-> NoErr]

\* JSON()
game_JSON(gg) ==
    LET lost == ~gg.won /\ gg.endTime # 0 IN
    [start |-> gg.startTime,
     mines |-> gg.totalMines,
     height |-> gg.boardHeight,
     width |-> gg.boardWidth,
     flags |-> IF gg.endTime # 0 /\ gg.won THEN gg.totalMines ELSE gg.flags,
     has_end |-> gg.endTime # 0,
     end |-> gg.endTime,
     won |-> gg.endTime # 0 /\ gg.won,
     grid |-> [i \in 0..(U16(gg.boardHeight * gg.boardWidth) - 1) |->
                 IF i \in DOMAIN gg.grid THEN Symbol(gg.grid[i], lost, gg.won) ELSE ""]]

-----------------------------------------------------------------------------
(* The game object seen through either package *)

Width(gx) == IF pkg = "mines" THEN gx.width ELSE gx.boardWidth
Height(gx) == IF pkg = "mines" THEN gx.height ELSE gx.boardHeight
Mines(gx) == IF pkg = "mines" THEN gx.mines ELSE gx.totalMines
EndedAt(gx) == IF pkg = "mines" THEN gx.endedAt ELSE gx.endTime
\* the grid JSON reads: the tiles of the latest turn, or the master grid
Tiles(gx) == IF pkg = "mines" THEN LatestTiles(gx) ELSE gx.grid
\* mines have been placed: the first turn exists, or the master grid does
Placed(gx) == IF pkg = "mines" THEN Len(gx.history) # 0 ELSE LenTiles(gx.grid) # 0

Create(w, h, m, t) == IF pkg = "mines" THEN NewGame(w, h, m, t) ELSE game_NewGame(w, h, m, t)
Choices(gx, x, y) == IF pkg = "mines" THEN MineChoices(gx, x, y) ELSE game_MineChoices(gx, x, y)
Click(gx, x, y, flag, M, t) ==
    IF pkg = "mines" THEN ClickTile(gx, x, y, flag, M, t) ELSE game_ClickTile(gx, x, y, flag, M, t)
ForceEnd(gx, won, t) == IF pkg = "mines" THEN End(gx, won, t) ELSE game_End(gx, won, t)
View(gx) == IF pkg = "mines" THEN JSON(gx) ELSE game_JSON(gx)

\* a call of JSON that stores the flag count it reports in the game object
Render_StoresFlags(gx) ==
    [g |-> IF EndedAt(gx) # 0 /\ gx.won THEN [gx EXCEPT !.flags = Mines(gx)] ELSE gx,
     view |-> View(gx)]

\* a call of JSON: the game object after it (JSON assigns to no field of g and
\* to no element of its grid or history) and the view it returns
Render(gx) == [g |-> gx, view |-> View(gx)]

Packages == {"mines", "game"}

-----------------------------------------------------------------------------
(* The engine in play: a game object made by NewGame, then any calls *)

Init ==
    /\ pkg \in Packages
    /\ now = 1
    /\ \E w \in 1..MaxW, h \in 1..MaxH, m \in 0..MaxMines :
         /\ w * h <= MaxCells
         /\ Create(w, h, m, 1).err = NoErr
         /\ g = Create(w, h, m, 1).g
         /\ call = [op |-> "NewGame", args |-> <<w, h, m>>, err |-> NoErr, view |-> Nil]
    /\ pre = Nil
    /\ stack = <<>>
    /\ other = <<>>
    /\ twin = Nil

\* the coordinates a call is made with: every cell of the grid, and the three
\* corners one step past it (x too large, y too large, both)
Coordinates(gx) ==
    { c \in (0..Width(gx)) \X (0..Height(gx)) :
        /\ c[1] = Width(gx) => c[2] \in {0, Height(gx)}
        /\ c[2] = Height(gx) => c[1] \in {0, Width(gx)} }

\* a call ClickTile(x, y, flag)
ClickTileCall ==
    /\ now < MaxTime
    /\ \E c \in Coordinates(g), flag \in BOOLEAN :
         \E M \in (IF c[1] < Width(g) /\ c[2] < Height(g) /\ ~Placed(g)
                   THEN Choices(g, c[1], c[2]) ELSE {{}}) :
           LET r == Click(g, c[1], c[2], flag, M, now + 1) IN
           /\ g' = r.g
           /\ call' = [op |-> "ClickTile", args |-> <<c[1], c[2], flag>>,
                       err |-> r.err, view |-> Nil]
    /\ pre' = g
    /\ now' = now + 1
    /\ UNCHANGED <<pkg, stack, other, twin>>

\* a call End(won)
EndCall ==
    /\ stack = <<>>
    /\ now < MaxTime
    /\ \E won \in BOOLEAN :
         /\ g' = ForceEnd(g, won, now + 1)
         /\ call' = [op |-> "End", args |-> <<won>>, err |-> NoErr, view |-> Nil]
    /\ pre' = g
    /\ now' = now + 1
    /\ UNCHANGED <<pkg, stack, other, twin>>

\* a call JSON()
JSONCall ==
    /\ stack = <<>>
    /\ now < MaxTime
    /\ g' = Render(g).g
    /\ call' = [op |-> "JSON", args |-> <<>>, err |-> NoErr, view |-> Render(g).view]
    /\ pre' = g
    /\ now' = now + 1
    /\ UNCHANGED <<pkg, stack, other, twin>>

Next == ClickTileCall \/ EndCall \/ JSONCall

Spec == Init /\ [][Next]_vars

-----------------------------------------------------------------------------
(* NewGame alone: one call, its arguments drawn from the uint16 values at and
   around the limits the code tests *)

CreateDims == (0..MaxW) \cup {maxW - 1, maxW, maxW + 1, UINT16 - 1}

CreateMineCounts(w, h) ==
    ( (0..MaxCells)
      \cup (IF w <= maxW + 1 /\ h <= maxH + 1 THEN {w * h - 2, w * h - 1, w * h} ELSE {})
      \cup {UINT16 - 1} ) \cap (0..(UINT16 - 1))

InitCreate ==
    /\ pkg \in Packages
    /\ g = Nil
    /\ now = 0
    /\ call = [op |-> "none", args |-> <<>>, err |-> NoErr, view |-> Nil]
    /\ pre = Nil
    /\ stack = <<>>
    /\ other = <<>>
    /\ twin = Nil

\* a call NewGame(w, h, m)
NewGameCall ==
    /\ call.op = "none"
    /\ \E w \in CreateDims, h \in CreateDims :
         \E m \in CreateMineCounts(w, h) :
           /\ g' = Create(w, h, m, now + 1).g
           /\ call' = [op |-> "NewGame", args |-> <<w, h, m>>,
                       err |-> Create(w, h, m, now + 1).err, view |-> Nil]
    /\ now' = now + 1
    /\ UNCHANGED <<pkg, pre, stack, other, twin>>

NextCreate == NewGameCall

SpecCreate == InitCreate /\ [][NextCreate]_vars

-----------------------------------------------------------------------------
(* ClickTile step by step: every call of ClickTile and of clickNeighbors has a
   frame on the stack, and one step runs the code of the innermost frame up to
   its next call or its return.  A slice index out of range is a run-time
   panic, as in Go. *)

\* a bound on the depth of the stack, above what the code reaches
MaxDepth == 2 * MaxCells + 4

Panic == "panic: index out of range"
Running == "running"

\* the tiles a ClickTile call works on: those of its own turn n, or the master grid
WorkTiles(gx, n) == IF pkg = "mines" THEN gx.history[n].tiles ELSE gx.grid
WriteFlagged(gx, n, idx, b) ==
    IF pkg = "mines" THEN SetFlagged(gx, n, idx, b) ELSE [gx EXCEPT !.grid[idx].flagged = b]
WriteClicked(gx, n, idx, b) ==
    IF pkg = "mines" THEN SetClicked(gx, n, idx, b) ELSE [gx EXCEPT !.grid[idx].clicked = b]
WriteEnded(gx, t) ==
    IF pkg = "mines" THEN [gx EXCEPT !.endedAt = t] ELSE [gx EXCEPT !.endTime = t]
CountFlags(gx, x, y) ==
    IF pkg = "mines" THEN countFlags(gx, x, y) ELSE game_countFlags(gx, x, y)

\* the frame of a call ClickTile(x, y, flag); M is what the placement loop
\* mines if this call is the one that runs it
ClickFrame(x, y, flag, M) ==
    [fn |-> "ClickTile", x |-> x, y |-> y, flag |-> flag, M |-> M,
     pc |-> "entry", n |-> 0, tiles |-> <<>>, k |-> 0]

\* the frame of a call clickNeighbors(x, y): its local `tiles` (package mines
\* only) and its place k in the loops
NeighborsFrame(x, y, tiles) ==
    [fn |-> "clickNeighbors", x |-> x, y |-> y, flag |-> FALSE, M |-> {},
     pc |-> "loop", n |-> 0, tiles |-> tiles, k |-> 0]

\* ClickTile, after the bounds checks and before the guard: the new turn on
\* the history (package mines), the mines put on an empty grid (package game)
BeginTurn(gx, fr, t) ==
    IF pkg = "mines" THEN AddTurn(gx, fr.x, fr.y, fr.flag, fr.M, t)
    ELSE IF 0 = LenTiles(gx.grid) THEN game_addMinesToGrid(gx, fr.x, fr.y, fr.M) ELSE gx

\* the key of the turn BeginTurn has put on the history (package mines)
TurnOf(gx) == IF pkg = "mines" THEN Len(gx.history) ELSE 0

\* a game on which nothing is ever found ended
NotActive_Never(g1) == FALSE

\* `!g.endedAt.IsZero()`, the guard "Game is not active" of ClickTile
NotActive(g1) == EndedAt(g1) # 0

\* ClickTile from the guard "Game is not active" on, to its first call of
\* clickNeighbors, to its win check or to its return; fr.n is the key of the
\* call's turn
DispatchTile(g1, fr, t) ==
    LET n == fr.n
        idx == U16(Width(g1) * fr.y + fr.x)
        me == [fr EXCEPT !.pc = "wincheck"]
    IN  IF NotActive(g1) THEN [g |-> g1, err |-> ErrNotActive, frames |-> <<>>]
        ELSE IF idx \notin DOMAIN WorkTiles(g1, n)
        THEN [g |-> g1, err |-> Panic, frames |-> <<>>]
        ELSE LET tile == WorkTiles(g1, n)[idx] IN
             IF tile.clicked
             THEN IF ~fr.flag /\ CountFlags(g1, fr.x, fr.y) = tile.value
                  THEN [g |-> g1, err |-> NoErr,
                        frames |-> <<me, NeighborsFrame(fr.x, fr.y, Tiles(g1))>>]
                  ELSE [g |-> g1, err |-> NoErr, frames |-> <<me>>]
             ELSE IF ~tile.flagged
             THEN IF fr.flag
                  THEN [g |-> [WriteFlagged(g1, n, idx, TRUE) EXCEPT !.flags = U16(@ + 1)],
                        err |-> NoErr, frames |-> <<me>>]
                  ELSE IF MINE = tile.value
                       THEN [g |-> WriteEnded(WriteClicked(g1, n, idx, TRUE), t),
                             err |-> NoErr, frames |-> <<me>>]
                       ELSE IF 0 = tile.value
                            THEN LET g2 == WriteClicked(g1, n, idx, TRUE) IN
                                 [g |-> g2, err |-> NoErr,
                                  frames |-> <<me, NeighborsFrame(fr.x, fr.y, Tiles(g2))>>]
                            ELSE [g |-> WriteClicked(g1, n, idx, TRUE),
                                  err |-> NoErr, frames |-> <<me>>]
             ELSE IF tile.flagged /\ fr.flag
             THEN [g |-> [WriteFlagged(g1, n, idx, FALSE) EXCEPT !.flags = U16(@ - 1)],
                   err |-> NoErr, frames |-> <<me>>]
             ELSE [g |-> g1, err |-> NoErr, frames |-> <<me>>]

\* ClickTile with the coordinates validated by < where the code has <=
EnterClickTile_BoundsOffByOne(gx, fr, t) ==
    IF Width(gx) < fr.x THEN [g |-> gx, err |-> ErrX, frames |-> <<>>]
    ELSE IF Height(gx) < fr.y THEN [g |-> gx, err |-> ErrY, frames |-> <<>>]
    ELSE CHOOSE r \in { DispatchTile(begun, [fr EXCEPT !.n = TurnOf(begun)], t) :
                         begun \in {BeginTurn(gx, fr, t)} } : TRUE

\* ClickTile from its entry to its first call of clickNeighbors, to its win
\* check or to its return: the game object then, the error if it returns (or
\* the panic), and the frames that take the place of its frame
EnterClickTile(gx, fr, t) ==
    IF Width(gx) <= fr.x THEN [g |-> gx, err |-> ErrX, frames |-> <<>>]
    ELSE IF Height(gx) <= fr.y THEN [g |-> gx, err |-> ErrY, frames |-> <<>>]
    ELSE CHOOSE r \in { DispatchTile(begun, [fr EXCEPT !.n = TurnOf(begun)], t) :
                         begun \in {BeginTurn(gx, fr, t)} } : TRUE

\* the win check of the ClickTile call of frame fr
WinCheck(gx, fr, t) ==
    IF pkg = "mines" THEN CheckWin(gx, fr.n, t) ELSE game_CheckWin(gx, t)

\* the loop of clickNeighbors calling ClickTile on every neighbour in the
\* grid, without looking at the tile
LoopClickNeighbors_NoGuard(gx, fr) ==
    LET x2 == fr.x + OffI(fr.k)
        y2 == fr.y + OffJ(fr.k)
    IN  IF (0 = OffI(fr.k) /\ 0 = OffJ(fr.k))
           \/ 0 > x2 \/ 0 > y2 \/ x2 >= Width(gx) \/ y2 >= Height(gx)
        THEN [panic |-> FALSE, calls |-> <<>>]
        ELSE [panic |-> FALSE, calls |-> <<ClickFrame(x2, y2, FALSE, {})>>]

\* one turn of the loops of clickNeighbors, at offset fr.k: whether the read of
\* the tile panics, and the call of ClickTile it makes, if any
LoopClickNeighbors(gx, fr) ==
    LET x2 == fr.x + OffI(fr.k)
        y2 == fr.y + OffJ(fr.k)
        tiles == IF pkg = "mines" THEN fr.tiles ELSE gx.grid
        idx == U16(Width(gx) * y2 + x2)
    IN  IF (0 = OffI(fr.k) /\ 0 = OffJ(fr.k))
           \/ 0 > x2 \/ 0 > y2 \/ x2 >= Width(gx) \/ y2 >= Height(gx)
        THEN [panic |-> FALSE, calls |-> <<>>]
        ELSE IF idx \notin DOMAIN tiles
        THEN [panic |-> TRUE, calls |-> <<>>]
        ELSE IF ~tiles[idx].clicked /\ ~tiles[idx].flagged
        THEN [panic |-> FALSE, calls |-> <<ClickFrame(x2, y2, FALSE, {})>>]
        ELSE [panic |-> FALSE, calls |-> <<>>]

Top == stack[Len(stack)]
Below == SubSeq(stack, 1, Len(stack) - 1)

\* a call ClickTile(x, y, flag) begins
StartClickTile ==
    /\ stack = <<>>
    /\ now < MaxTime
    /\ \E c \in Coordinates(g), flag \in BOOLEAN :
         \E M \in (IF c[1] < Width(g) /\ c[2] < Height(g) /\ ~Placed(g)
                   THEN Choices(g, c[1], c[2]) ELSE {{}}) :
           /\ stack' = <<ClickFrame(c[1], c[2], flag, M)>>
           /\ call' = [op |-> "ClickTile", args |-> <<c[1], c[2], flag>>,
                       err |-> Running, view |-> Nil]
    /\ pre' = g
    /\ now' = now + 1
    /\ UNCHANGED <<pkg, g, other, twin>>

\* the innermost ClickTile runs from its entry on; the error of a call made by
\* clickNeighbors is dropped, that of the outermost call is returned
StepEnter ==
    /\ stack # <<>>
    /\ Top.fn = "ClickTile" /\ Top.pc = "entry"
    /\ \E r \in {EnterClickTile(g, Top, now)} :
       /\ Len(Below) + Len(r.frames) <= MaxDepth
       /\ g' = r.g
       /\ stack' = IF r.err = Panic THEN <<>> ELSE Below \o r.frames
       /\ call' = IF r.err = Panic \/ (Below = <<>> /\ r.frames = <<>>)
                  THEN [call EXCEPT !.err = r.err] ELSE call
    /\ UNCHANGED <<pkg, now, pre, other, twin>>

\* the innermost ClickTile makes its win check and returns nil
StepWinCheck ==
    /\ stack # <<>>
    /\ Top.fn = "ClickTile" /\ Top.pc = "wincheck"
    /\ \E g1 \in {WinCheck(g, Top, now)} : g' = g1
    /\ stack' = Below
    /\ call' = IF Below = <<>> THEN [call EXCEPT !.err = NoErr] ELSE call
    /\ UNCHANGED <<pkg, now, pre, other, twin>>

\* the innermost clickNeighbors makes one turn of its loops, or returns
StepNeighbors ==
    /\ stack # <<>>
    /\ Top.fn = "clickNeighbors"
    /\ IF Top.k > 8
       THEN stack' = Below /\ UNCHANGED call
       ELSE \E r \in {LoopClickNeighbors(g, Top)} :
            /\ Len(stack) + Len(r.calls) <= MaxDepth
            /\ stack' = IF r.panic THEN <<>>
                        ELSE Below \o <<[Top EXCEPT !.k = @ + 1]>> \o r.calls
            /\ call' = IF r.panic THEN [call EXCEPT !.err = Panic] ELSE call
    /\ UNCHANGED <<pkg, g, now, pre, other, twin>>

Step == StepEnter \/ StepWinCheck \/ StepNeighbors

NextSteps == StartClickTile \/ StepEnter \/ StepWinCheck \/ StepNeighbors \/ EndCall \/ JSONCall

\* a call that has begun runs on: the goroutine of the request is never
\* suspended for ever
SpecSteps == Init /\ [][NextSteps]_vars /\ WF_vars(Step)

-----------------------------------------------------------------------------
(* The placement loop of generateTiles / addMinesToGrid, draw by draw, in the
   first ClickTile inside the grid.  The frame of the call holds the tiles
   the loop works on and, in k, its counter `mines`. *)

\* make([]tile, g.height*g.width) and `var mines uint16`, in the frame of ClickTile(x, y, flag)
PlaceFrame(gx, x, y, flag) ==
    [ClickFrame(x, y, flag, {}) EXCEPT
        !.pc = "place", !.tiles = MakeTiles(U16(Height(gx) * Width(gx)))]

\* a turn of the loop that counts a mine whether or not the cell had one
DrawMine_CountsEveryDraw(gx, fr, x, y) ==
    IF x = fr.x /\ y = fr.y THEN fr
    ELSE [fr EXCEPT !.tiles[U16(Width(gx) * y + x)].value = MINE, !.k = U16(@ + 1)]

\* one turn of `for mines < g.mines` with the draw (x, y)
DrawMine(gx, fr, x, y) ==
    IF x = fr.x /\ y = fr.y THEN fr
    ELSE LET idx == U16(Width(gx) * y + x) IN
         IF fr.tiles[idx].value # MINE
         THEN [fr EXCEPT !.tiles[idx].value = MINE, !.k = U16(@ + 1)]
         ELSE fr

\* the cells the loop has mined
MinedByLoop(fr) == { i \in DOMAIN fr.tiles : fr.tiles[i].value = MINE }

\* the first ClickTile inside the grid reaches the placement loop
PlaceStart ==
    /\ stack = <<>>
    /\ ~Placed(g)
    /\ now < MaxTime
    /\ \E x \in 0..(Width(g) - 1), y \in 0..(Height(g) - 1), flag \in BOOLEAN :
         /\ stack' = <<PlaceFrame(g, x, y, flag)>>
         /\ call' = [op |-> "ClickTile", args |-> <<x, y, flag>>,
                     err |-> Running, view |-> Nil]
    /\ pre' = g
    /\ now' = now + 1
    /\ UNCHANGED <<pkg, g, other, twin>>

\* a turn of the loop: rand.Intn draws x and y
PlaceDraw ==
    /\ stack # <<>>
    /\ Top.pc = "place"
    /\ Top.k < Mines(g)
    /\ \E x \in 0..(Width(g) - 1), y \in 0..(Height(g) - 1) :
         stack' = <<DrawMine(g, Top, x, y)>>
    /\ UNCHANGED <<pkg, g, now, call, pre, other, twin>>

\* the loop ends: ClickTile goes on with the mines the loop has placed
PlaceFinish ==
    /\ stack # <<>>
    /\ Top.pc = "place"
    /\ ~(Top.k < Mines(g))
    /\ stack' = <<ClickFrame(Top.x, Top.y, Top.flag, MinedByLoop(Top))>>
    /\ UNCHANGED <<pkg, g, now, call, pre, other, twin>>

NextPlace == PlaceStart \/ PlaceDraw \/ PlaceFinish \/ StepEnter \/ StepWinCheck \/ StepNeighbors

\* the draws are fair: the loop does not draw the ignored cell and mined
\* cells for ever
SpecPlace ==
    Init /\ [][NextPlace]_vars /\ WF_vars(PlaceDraw) /\ WF_vars(PlaceFinish) /\ WF_vars(Step)

-----------------------------------------------------------------------------
(* Two requests on the same game.  net/http serves every connection in a
   goroutine of its own and the handler calls ClickTile, End and JSON on the
   *Game it finds in `games` without a lock: the calls of two requests run
   step by step in any order.  `stack` is the call of the goroutine that
   runs, `other` that of the goroutine that waits. *)

\* the requests a run makes
MaxRequests == 2

\* the turns two requests put on the history of a game (package mines)
MaxTurns == 5

\* the largest board two requests meet on
MaxSharedCells == 2

\* a game of `games` that two requests aim at
InitHTTP ==
    /\ Init
    /\ Width(g) * Height(g) <= MaxSharedCells

\* the handler of POST /games/{uuid} calls ClickTile(x, y, flag)
HandlerClickTile ==
    /\ now <= MaxRequests
    /\ StartClickTile

\* ClickTile from its entry to the turn it puts on the history
StepBegin ==
    /\ stack # <<>>
    /\ Top.fn = "ClickTile" /\ Top.pc = "entry"
    /\ TurnOf(g) < MaxTurns
    /\ IF Width(g) <= Top.x \/ Height(g) <= Top.y
       THEN /\ stack' = Below
            /\ g' = g
            /\ call' = IF Below = <<>>
                       THEN [call EXCEPT !.err = IF Width(g) <= Top.x THEN ErrX ELSE ErrY]
                       ELSE call
       ELSE \E begun \in {BeginTurn(g, Top, now)} :
            /\ g' = begun
            /\ stack' = Below \o <<[Top EXCEPT !.pc = "dispatch", !.n = TurnOf(begun)]>>
            /\ call' = call
    /\ UNCHANGED <<pkg, now, pre, other, twin>>

\* ClickTile from the guard "Game is not active" to its first call of
\* clickNeighbors, to its win check or to its return
StepDispatch ==
    /\ stack # <<>>
    /\ Top.fn = "ClickTile" /\ Top.pc = "dispatch"
    /\ \E r \in {DispatchTile(g, Top, now)} :
       /\ Len(Below) + Len(r.frames) <= MaxDepth
       /\ g' = r.g
       /\ stack' = IF r.err = Panic THEN <<>> ELSE Below \o r.frames
       /\ call' = IF r.err = Panic \/ (Below = <<>> /\ r.frames = <<>>)
                  THEN [call EXCEPT !.err = r.err] ELSE call
    /\ UNCHANGED <<pkg, now, pre, other, twin>>

\* the scheduler runs the other goroutine
Switch ==
    /\ stack # other
    /\ stack' = other
    /\ other' = stack
    /\ UNCHANGED <<pkg, g, now, call, pre, twin>>

NextHTTP ==
    \/ HandlerClickTile \/ StepBegin \/ StepDispatch \/ StepWinCheck \/ StepNeighbors
    \/ EndCall \/ JSONCall \/ Switch

SpecHTTP == InitHTTP /\ [][NextHTTP]_vars

-----------------------------------------------------------------------------
(* Vocabulary of the properties *)

\* the outcome of the board: in progress until endedAt is stamped, then won or lost
Outcome(gx) ==
    IF EndedAt(gx) = 0 THEN "in_progress" ELSE IF gx.won THEN "won" ELSE "lost"

\* the index of cell (x, y)
Cell(gx, x, y) == Width(gx) * y + x

\* the call recorded in c is ClickTile with coordinates inside the grid of gx
InGridClick(c, gx) ==
    /\ c.op = "ClickTile"
    /\ c.args[1] < Width(gx)
    /\ c.args[2] < Height(gx)

Flagged(gx) == { i \in DOMAIN Tiles(gx) : Tiles(gx)[i].flagged }
Revealed(gx) == { i \in DOMAIN Tiles(gx) : Tiles(gx)[i].clicked }
Mined(gx) == { i \in DOMAIN Tiles(gx) : Tiles(gx)[i].value = MINE }

\* the board as NewGame leaves it: in progress, nothing revealed or flagged,
\* no flags counted, no mines placed
Fresh(gx) ==
    /\ Outcome(gx) = "in_progress"
    /\ Revealed(gx) = {}
    /\ Flagged(gx) = {}
    /\ gx.flags = 0
    /\ Mined(gx) = {}
    /\ ~Placed(gx)

-----------------------------------------------------------------------------
(* C1 *)

\* C1: the first move with coordinates in the grid, when it is a reveal, leaves
\* the clicked tile not a mine and the outcome not lost, whatever cells the
\* placement loop mined and whatever the mine count
C1_FirstRevealSafe ==
    (/\ InGridClick(call, g)
     /\ ~Placed(pre)
     /\ call.args[3] = FALSE)
    => (/\ Placed(g)
        /\ Tiles(g)[Cell(g, call.args[1], call.args[2])].value # MINE
        /\ Outcome(g) # "lost")

\* a first call that revealed a tile of a board with MaxMines mines
C1_Witness ==
    /\ now = 2
    /\ InGridClick(call, g)
    /\ call.args[3] = FALSE
    /\ call.err = NoErr
    /\ Mines(g) = MaxMines
    /\ Tiles(g)[Cell(g, call.args[1], call.args[2])].clicked

-----------------------------------------------------------------------------
(* C2 *)

\* C2: NewGame(w, h, m) succeeds for all w, h in 1..250 and 0 <= m <= w*h - 1,
\* and returns a board that is in progress with nothing revealed or flagged,
\* flag count 0 and no mines placed
C2_CreateAccepts ==
    (/\ call.op = "NewGame"
     /\ call.args[1] \in 1..maxW
     /\ call.args[2] \in 1..maxH
     /\ call.args[3] <= call.args[1] * call.args[2] - 1)
    => (/\ call.err = NoErr
        /\ g # Nil
        /\ Fresh(g))

-----------------------------------------------------------------------------
(* C3 *)

\* C3: NewGame fails and returns no game whenever w > 250, h > 250 or
\* m > w*h - 1, and a game is never returned together with an error
C3_CreateRejects ==
    call.op = "NewGame" =>
        /\ (\/ call.args[1] > maxW
            \/ call.args[2] > maxH
            \/ call.args[3] > call.args[1] * call.args[2] - 1)
           => (call.err # NoErr /\ g = Nil)
        /\ call.err # NoErr => g = Nil
        /\ call.err = NoErr => g # Nil

\* a call with w and h at the limit and as many mines as tiles, which was refused
C3_Witness ==
    /\ call.op = "NewGame"
    /\ call.args = <<maxW, maxH, maxW * maxH>>
    /\ call.err = ErrMines
    /\ g = Nil

-----------------------------------------------------------------------------
(* C4 *)

\* the last call was ClickTile(x, y, false) on a tile that was unrevealed,
\* unflagged and a mine, the board being in progress
RevealedAMine ==
    /\ InGridClick(call, g)
    /\ call.args[3] = FALSE
    /\ Outcome(pre) = "in_progress"
    /\ Placed(pre)
    /\ LET tile == Tiles(pre)[Cell(pre, call.args[1], call.args[2])] IN
       ~tile.clicked /\ ~tile.flagged /\ tile.value = MINE

\* C4: a reveal of an unrevealed, unflagged mine on a board in progress ends the
\* game as lost at the time of the call, reveals that tile and no other, and
\* neither cascades nor wins
C4_MineRevealLoses ==
    RevealedAMine
    => (/\ call.err = NoErr
        /\ Outcome(g) = "lost"
        /\ EndedAt(g) = now
        /\ Tiles(g) = [Tiles(pre) EXCEPT ![Cell(pre, call.args[1], call.args[2])].clicked = TRUE]
        /\ g.flags = pre.flags)

\* a mine was revealed that has an unrevealed, unflagged neighbour
C4_Witness ==
    /\ RevealedAMine
    /\ \E n \in Neighbors(Width(g), Height(g), call.args[1], call.args[2]) :
         LET tile == Tiles(g)[Cell(g, n[1], n[2])] IN ~tile.clicked /\ ~tile.flagged

-----------------------------------------------------------------------------
(* C5 *)

\* C5: on a board that is won or lost, a ClickTile with coordinates in the grid
\* fails with "Game is not active" and leaves the game object as it was (tiles,
\* mines placed or not, flag count, outcome, end time, turn history)
C5_EndedBoardUnchanged ==
    (InGridClick(call, g) /\ Outcome(pre) # "in_progress")
    => (call.err = ErrNotActive /\ g = pre)

-----------------------------------------------------------------------------
(* C6 *)

\* the last call was ClickTile with x >= width or y >= height
OutOfGridClick ==
    /\ call.op = "ClickTile"
    /\ (call.args[1] >= Width(pre) \/ call.args[2] >= Height(pre))

\* C6: a ClickTile with x >= width or y >= height fails with the out-of-bounds
\* error of its coordinate and leaves the game object as it was, in every state of
\* the board; as a first call it places no mines
C6_OutOfGridRejected ==
    OutOfGridClick
    => (/\ call.err = (IF call.args[1] >= Width(pre) THEN ErrX ELSE ErrY)
        /\ g = pre)

\* the very first call on a board was out of the grid in y only
C6_Witness ==
    /\ OutOfGridClick
    /\ now = 2
    /\ call.err = ErrY
    /\ ~Placed(g)

-----------------------------------------------------------------------------
(* C7 *)

\* every tile that is not a mine is revealed, and no mine is
AllSafeRevealed(gx) == Revealed(gx) = (DOMAIN Tiles(gx)) \ Mined(gx)

\* C7: after a ClickTile with coordinates in the grid on a board in progress (so
\* no End call came before), the outcome is won exactly when every tile that is
\* not a mine is revealed and no mine is, and a win is stamped with the time of
\* the call
C7_WonIffAllSafeRevealed ==
    (InGridClick(call, g) /\ Outcome(pre) = "in_progress")
    => (/\ (Outcome(g) = "won") <=> AllSafeRevealed(g)
        /\ Outcome(g) = "won" => EndedAt(g) = now)

\* a reveal that won a board with mines on it through a cascade: more tiles were
\* revealed by the call than the clicked one
C7_Witness ==
    /\ InGridClick(call, g)
    /\ Outcome(pre) = "in_progress"
    /\ Outcome(g) = "won"
    /\ Mines(g) > 0
    /\ Cardinality(Revealed(g) \ Revealed(pre)) > 1

-----------------------------------------------------------------------------
(* C8 *)

\* the flag count the view of gx must carry
ExpectedFlags(gx) == IF Outcome(gx) = "won" THEN Mines(gx) ELSE gx.flags

\* C8: JSON reports the mine count as the flag count of a won game, whatever
\* number of tiles is flagged, and the counted flags in every other state
C8_ViewFlags ==
    /\ View(g).flags = ExpectedFlags(g)
    /\ call.op = "JSON" => call.view.flags = ExpectedFlags(g)

\* JSON was called on a won board whose counted flags differ from its mine count
C8_Witness ==
    /\ call.op = "JSON"
    /\ Outcome(g) = "won"
    /\ g.flags # Mines(g)
    /\ call.view.flags = Mines(g)

-----------------------------------------------------------------------------
(* C9 *)

\* C9: the flag count is the number of flagged tiles of the current grid (so it
\* never wraps below zero)
C9_FlagCount == g.flags = Cardinality(Flagged(g))

\* a flag toggle took a flag off while another tile stays flagged
C9_Witness ==
    /\ InGridClick(call, g)
    /\ call.args[3] = TRUE
    /\ Placed(pre)
    /\ Cell(g, call.args[1], call.args[2]) \in Flagged(pre) \ Flagged(g)
    /\ g.flags = 1

-----------------------------------------------------------------------------
(* C10 *)

\* what a flag toggle may change: the flagged and revealed bits of every tile
\* (none is set while the grid does not exist), the flag count and the outcome
Marks(gx) ==
    [flagged |-> Flagged(gx), revealed |-> Revealed(gx),
     flags |-> gx.flags, outcome |-> Outcome(gx)]

\* the game object after ClickTile(x, y, true) twice in a row, the placement
\* loop mining M if the first of the two is the first move
FlagTwice(gx, x, y, M) ==
    Click(Click(gx, x, y, TRUE, M, now + 1).g, x, y, TRUE, {}, now + 2).g

\* C10: on a board in progress, two flag toggles in a row on the same unrevealed
\* tile leave the flagged and revealed bits of every tile, the flag count and the
\* outcome as they were before the first
C10_FlagInvolution ==
    Outcome(g) = "in_progress" =>
        \A x \in 0..(Width(g) - 1), y \in 0..(Height(g) - 1) :
            (Placed(g) => ~Tiles(g)[Cell(g, x, y)].clicked) =>
                \A M \in (IF Placed(g) THEN {{}} ELSE Choices(g, x, y)) :
                    Marks(FlagTwice(g, x, y, M)) = Marks(g)

\* the two calls made so far were flag toggles on the same tile, the first one
\* setting the flag and the second one taking it off
C10_Witness ==
    /\ now = 3
    /\ InGridClick(call, g)
    /\ call.args[3] = TRUE
    /\ call.err = NoErr
    /\ Cell(g, call.args[1], call.args[2]) \in Flagged(pre)
    /\ pre.flags = 1
    /\ Marks(g) = [flagged |-> {}, revealed |-> {}, flags |-> 0, outcome |-> "in_progress"]

-----------------------------------------------------------------------------
(* C11 *)

\* the last call was ClickTile(x, y, false) on a flagged tile of a board in progress
ClickedAFlag ==
    /\ InGridClick(call, g)
    /\ call.args[3] = FALSE
    /\ Outcome(pre) = "in_progress"
    /\ Cell(pre, call.args[1], call.args[2]) \in Flagged(pre)

\* C11: a tile flagged when a ClickTile call begins is unrevealed when it ends,
\* whatever the call (click, cascade, chord or a toggle elsewhere); no tile is
\* ever flagged and revealed at once; and a plain click on a flagged tile returns
\* no error and leaves tiles, flag count and outcome as they were
C11_FlaggedStaysUnrevealed ==
    /\ Flagged(g) \cap Revealed(g) = {}
    /\ call.op = "ClickTile" => Flagged(pre) \cap Revealed(g) = {}
    /\ ClickedAFlag => (/\ call.err = NoErr
                        /\ Tiles(g) = Tiles(pre)
                        /\ g.flags = pre.flags
                        /\ Outcome(g) = "in_progress")

\* a reveal next to a flagged tile spread over more than one tile and left the
\* flagged tile alone
C11_Witness ==
    /\ InGridClick(call, g)
    /\ call.args[3] = FALSE
    /\ Cardinality(Revealed(g) \ Revealed(pre)) > 1
    /\ \E n \in Neighbors(Width(g), Height(g), call.args[1], call.args[2]) :
         /\ Cell(g, n[1], n[2]) \in Flagged(pre)
         /\ Cell(g, n[1], n[2]) \in Flagged(g) \ Revealed(g)

-----------------------------------------------------------------------------
(* C12 *)

\* the cells next to (x, y)
NeighborCells(gx, x, y) ==
    { Cell(gx, n[1], n[2]) : n \in Neighbors(Width(gx), Height(gx), x, y) }

\* the last call was ClickTile(x, y, false) on a revealed tile of a board in progress
ClickedARevealed ==
    /\ InGridClick(call, g)
    /\ call.args[3] = FALSE
    /\ Outcome(pre) = "in_progress"
    /\ Cell(pre, call.args[1], call.args[2]) \in Revealed(pre)

\* the number of flagged neighbours of the clicked tile, before the call
FlaggedAround == Cardinality(NeighborCells(pre, call.args[1], call.args[2]) \cap Flagged(pre))

\* the neighbours of the clicked tile that were unrevealed and unflagged before the call
OpenAround == NeighborCells(pre, call.args[1], call.args[2]) \ (Revealed(pre) \cup Flagged(pre))

\* ... and the flagged neighbours were as many as the number on the tile
ChordMatch ==
    /\ ClickedARevealed
    /\ FlaggedAround = Tiles(pre)[Cell(pre, call.args[1], call.args[2])].value

\* C12 as stated: a matching chord leaves every neighbour that was unrevealed and
\* unflagged revealed
C12_ChordRevealsAll == ChordMatch => OpenAround \subseteq Revealed(g)

\* C12, amended: a matching chord returns no error, hides no tile again, moves
\* no flag, and leaves every neighbour that was unrevealed and unflagged
\* revealed, unless a reveal it made landed on a mine: then the game is lost
\* with a mine revealed
C12_ChordRevealsAllUnlessLost ==
    ChordMatch =>
        /\ call.err = NoErr
        /\ Outcome(g) # "lost" => OpenAround \subseteq Revealed(g)
        /\ Outcome(g) = "lost" => Revealed(g) \cap Mined(g) # {}
        /\ Revealed(pre) \subseteq Revealed(g)
        /\ Flagged(g) = Flagged(pre)

\* a matching chord revealed two neighbours or more and the game goes on or is won
C12_Witness ==
    /\ ChordMatch
    /\ Cardinality(OpenAround) >= 2
    /\ OpenAround \subseteq Revealed(g)
    /\ Outcome(g) # "lost"

-----------------------------------------------------------------------------
(* C13 *)

\* the last call was a click on a revealed tile with fewer or more flagged
\* neighbours than the number on the tile
ChordMismatch ==
    /\ ClickedARevealed
    /\ FlaggedAround # Tiles(pre)[Cell(pre, call.args[1], call.args[2])].value

\* C13: a click on a revealed tile whose flagged neighbours are fewer or more
\* than its number returns no error and leaves every tile, the flag count, the
\* outcome and the end time as they were
C13_ChordMismatchNoOp ==
    ChordMismatch =>
        /\ call.err = NoErr
        /\ Tiles(g) = Tiles(pre)
        /\ g.flags = pre.flags
        /\ Outcome(g) = "in_progress"
        /\ EndedAt(g) = 0

\* a revealed tile with too few flagged neighbours was clicked while it has
\* neighbours a chord would reveal
C13_Witness ==
    /\ ChordMismatch
    /\ FlaggedAround < Tiles(pre)[Cell(pre, call.args[1], call.args[2])].value
    /\ OpenAround # {}
    /\ call.err = NoErr

\* a revealed tile with too many flagged neighbours was clicked
C13_WitnessOverFlagged ==
    /\ ChordMismatch
    /\ FlaggedAround > Tiles(pre)[Cell(pre, call.args[1], call.args[2])].value
    /\ call.err = NoErr

-----------------------------------------------------------------------------
(* C14 *)

\* the state of cell i: its tile, or an unrevealed, unflagged tile without a
\* mine while the grid does not exist yet
CellState(gx, i) == IF i \in DOMAIN Tiles(gx) THEN Tiles(gx)[i] ELSE ZeroTile

\* the first matching row of the disclosure table
TableSymbol(tile, outcome) ==
    IF outcome = "lost" /\ tile.value = MINE /\ ~tile.flagged THEN "9"
    ELSE IF outcome = "lost" /\ tile.value # MINE /\ tile.flagged THEN "X"
    ELSE IF tile.flagged \/ (outcome = "won" /\ tile.value = MINE) THEN "!"
    ELSE IF ~tile.clicked THEN "?"
    ELSE IF tile.value = 0 THEN ""
    ELSE ToString(tile.value)

\* C14: for every cell and every outcome, JSON emits the symbol of the first
\* matching row of the disclosure table
C14_ViewFollowsTable ==
    \A i \in 0..(Width(g) * Height(g) - 1) :
        View(g).grid[i] = TableSymbol(CellState(g, i), Outcome(g))

-----------------------------------------------------------------------------
(* C15 *)

\* C15: JSON called on a board as NewGame made it, before any move, reports
\* width*height cells, all of them hidden
C15_FreshViewHidden ==
    (call.op = "JSON" /\ ~Placed(g) /\ Outcome(g) = "in_progress")
    => (/\ DOMAIN call.view.grid = 0..(Width(g) * Height(g) - 1)
        /\ \A i \in DOMAIN call.view.grid : call.view.grid[i] = "?")

-----------------------------------------------------------------------------
(* C16 *)

\* C16: every call of JSON leaves the game object as it was (tiles, flag count,
\* outcome, end time, turn history), in every state of the board, and a call
\* of JSON made right after another returns the same view
C16_ViewChangesNothing ==
    [][call'.op = "JSON" => (/\ g' = g
                             /\ call.op = "JSON" => call'.view = call.view)]_vars

\* JSON was called on a won board that has tiles, whose counted flags are not
\* the mine count the view reports
C16_Witness ==
    /\ call.op = "JSON"
    /\ Placed(g)
    /\ Outcome(g) = "won"
    /\ g.flags # call.view.flags
    /\ g = pre

-----------------------------------------------------------------------------
(* C17 *)

\* C17: NewGame returns a game in progress; the won bit is never set on a game
\* without an end time; and a ClickTile call on a game that is won or lost, with
\* any coordinates, leaves the outcome and the end time as they were
C17_OutcomeSettlesOnce ==
    /\ call.op = "NewGame" => Outcome(g) = "in_progress"
    /\ g.won => EndedAt(g) # 0
    /\ (call.op = "ClickTile" /\ Outcome(pre) # "in_progress")
       => (Outcome(g) = Outcome(pre) /\ EndedAt(g) = EndedAt(pre))

\* a tile of a lost board was clicked in a later call, and the board is lost as before
C17_Witness ==
    /\ InGridClick(call, g)
    /\ Outcome(pre) = "lost"
    /\ Outcome(g) = "lost"
    /\ EndedAt(g) < now
    /\ Cell(g, call.args[1], call.args[2]) \notin Revealed(g)

-----------------------------------------------------------------------------
(* C18 *)

\* C18: End(won) on a game in progress ends it with the outcome its argument
\* selects: won after End(true); after End(false) the game is ended and not
\* won, and the view reports no win, reports the counted flags and shows no
\* unflagged mine as a flag
C18_EndSelectsOutcome ==
    (call.op = "End" /\ Outcome(pre) = "in_progress")
    => (/\ EndedAt(g) # 0
        /\ call.args[1] => Outcome(g) = "won"
        /\ ~call.args[1] =>
             /\ Outcome(g) # "won"
             /\ ~View(g).won
             /\ View(g).flags = g.flags
             /\ \A i \in DOMAIN Tiles(g) :
                  (Tiles(g)[i].value = MINE /\ ~Tiles(g)[i].flagged)
                  => View(g).grid[i] # "!")

-----------------------------------------------------------------------------
(* C19 *)

\* the last call was the first move of a game in progress and a reveal, on a
\* board of w by h tiles with m mines
FirstRevealOn(w, h, m) ==
    /\ InGridClick(call, g)
    /\ call.args[3] = FALSE
    /\ ~Placed(pre)
    /\ Outcome(pre) = "in_progress"
    /\ Width(g) = w /\ Height(g) = h /\ Mines(g) = m

\* C19: on a 2x2 board with no mines the first reveal, at any cell, returns no
\* error and leaves all 4 tiles revealed and the game won
C19_TwoByTwoNoMines ==
    FirstRevealOn(2, 2, 0)
    => (/\ call.err = NoErr
        /\ Revealed(g) = 0..3
        /\ Outcome(g) = "won"
        /\ EndedAt(g) = now)

\* the first reveal on the 2x2 board without mines was made at (1, 1)
C19_Witness ==
    /\ FirstRevealOn(2, 2, 0)
    /\ call.args[1] = 1 /\ call.args[2] = 1
    /\ Outcome(g) = "won"

-----------------------------------------------------------------------------
(* C20 *)

\* C20: NewGame(3, 1, 1) succeeds; after ClickTile(1, 0, false) as the first
\* move exactly one tile is a mine, at (0,0) or (2,0), the centre tile is
\* revealed and numbered 1, no other tile is revealed and the game is in progress
C20_ThreeByOneCentre ==
    /\ Create(3, 1, 1, 1).err = NoErr
    /\ Width(Create(3, 1, 1, 1).g) = 3 /\ Height(Create(3, 1, 1, 1).g) = 1
    /\ (FirstRevealOn(3, 1, 1) /\ call.args[1] = 1 /\ call.args[2] = 0)
       => (/\ call.err = NoErr
           /\ Mined(g) \in {{0}, {2}}
           /\ Tiles(g)[1].value = 1
           /\ Revealed(g) = {1}
           /\ Outcome(g) = "in_progress")

\* the centre of the 3x1 board with one mine was revealed first, the mine at (2,0)
C20_Witness ==
    /\ FirstRevealOn(3, 1, 1)
    /\ call.args[1] = 1 /\ call.args[2] = 0
    /\ Mined(g) = {2}
    /\ Revealed(g) = {1}

-----------------------------------------------------------------------------
(* C29 *)

\* the last call was ClickTile(x, y, true) on a revealed tile of a board in progress
FlaggedARevealed ==
    /\ InGridClick(call, g)
    /\ call.args[3] = TRUE
    /\ Outcome(pre) = "in_progress"
    /\ Cell(pre, call.args[1], call.args[2]) \in Revealed(pre)

\* C29: a flag toggle on a revealed tile of a board in progress returns no error
\* and leaves every tile, the flag count, the outcome and the end time as they were
C29_FlagOnRevealedNoOp ==
    FlaggedARevealed =>
        /\ call.err = NoErr
        /\ Tiles(g) = Tiles(pre)
        /\ g.flags = pre.flags
        /\ Outcome(g) = "in_progress"
        /\ EndedAt(g) = 0

\* a flag toggle was made on a revealed tile that a plain click would have
\* chorded: its flagged neighbours match its number and a neighbour is open
C29_Witness ==
    /\ FlaggedARevealed
    /\ FlaggedAround = Tiles(pre)[Cell(pre, call.args[1], call.args[2])].value
    /\ OpenAround # {}
    /\ call.err = NoErr

-----------------------------------------------------------------------------
(* C30 *)

\* C30: no tile is flagged and revealed at once; a ClickTile call flags only
\* tiles that were unrevealed and reveals only tiles that were unflagged
C30_FlaggedOrRevealed ==
    /\ \A i \in DOMAIN Tiles(g) : ~(Tiles(g)[i].flagged /\ Tiles(g)[i].clicked)
    /\ (call.op = "ClickTile" /\ Placed(pre))
       => (/\ (Flagged(g) \ Flagged(pre)) \cap Revealed(pre) = {}
           /\ (Revealed(g) \ Revealed(pre)) \cap Flagged(pre) = {})

\* a board with a flagged tile and a revealed tile, after a flag toggle aimed
\* at a revealed tile
C30_Witness ==
    /\ FlaggedARevealed
    /\ Flagged(g) # {}
    /\ Revealed(g) # {}

-----------------------------------------------------------------------------
(* C28 *)

\* the tiles revealed in any turn of the history (package mines: every
\* ClickTile call, the recursive ones included, writes to a turn of its own)
RevealedInAnyTurn(gx) ==
    IF pkg = "mines"
    THEN UNION { { i \in DOMAIN gx.history[n].tiles : gx.history[n].tiles[i].clicked } :
                    n \in DOMAIN gx.history }
    ELSE Revealed(gx)

\* C28: after every call the grid JSON reads holds all that was done so far:
\* every tile revealed in any turn, at any depth of a cascade or chord, is
\* revealed in it; a tile revealed before the call is still revealed; no flag
\* changes but that of the tile a flag toggle aims at; and the view shows no
\* revealed tile as hidden
C28_ViewIsCumulative ==
    /\ RevealedInAnyTurn(g) \subseteq Revealed(g)
    /\ \A i \in Revealed(g) : View(g).grid[i] # "?"
    /\ (pre # Nil /\ Placed(pre))
       => (/\ Revealed(pre) \subseteq Revealed(g)
           /\ \A i \in DOMAIN Tiles(g) :
                (Tiles(g)[i].flagged # Tiles(pre)[i].flagged)
                => (/\ InGridClick(call, g)
                    /\ call.args[3] = TRUE
                    /\ i = Cell(g, call.args[1], call.args[2])))

\* a reveal that made two recursive calls or more, on a board with a flag and a
\* revealed tile from earlier moves
C28_Witness ==
    /\ InGridClick(call, g)
    /\ call.args[3] = FALSE
    /\ Placed(pre)
    /\ Flagged(pre) # {}
    /\ Revealed(pre) # {}
    /\ Cardinality(Revealed(g) \ Revealed(pre)) > 2
    /\ Flagged(g) = Flagged(pre)

-----------------------------------------------------------------------------
(* C24 *)

\* the mine/adjacency value of every tile of a grid
Values(tiles) == [i \in DOMAIN tiles |-> tiles[i].value]

\* C24: the mines are placed by the first ClickTile call with coordinates in
\* the grid, flag toggle or reveal, and by no other call; that call's cell gets
\* no mine; once placed, no call changes the value of any tile, and (package
\* mines) every turn of the history carries the values of the first turn
C24_PlacedOnce ==
    /\ (pre # Nil /\ ~Placed(pre))
       => IF InGridClick(call, g)
          THEN /\ Placed(g)
               /\ Cardinality(Mined(g)) = Mines(g)
               /\ Cell(g, call.args[1], call.args[2]) \notin Mined(g)
          ELSE ~Placed(g)
    /\ (pre # Nil /\ Placed(pre)) => Values(Tiles(g)) = Values(Tiles(pre))
    /\ pkg = "mines" =>
         \A n \in DOMAIN g.history : Values(g.history[n].tiles) = Values(g.history[1].tiles)

\* the first move was a flag toggle, which placed the mines; a second move
\* with coordinates in the grid followed and the mines are where they were
C24_Witness ==
    /\ now = 3
    /\ InGridClick(call, g)
    /\ Placed(pre)
    /\ Flagged(pre) # {}
    /\ Mined(pre) # {}
    /\ Mined(g) = Mined(pre)
    /\ Mined(g) \cap Flagged(pre) = {}

-----------------------------------------------------------------------------
(* C25 *)

\* package mines: the turns the last call put on the history after its own,
\* one for each recursive ClickTile call made by clickNeighbors, in call order
RecursiveTurns == (Len(pre.history) + 2)..Len(g.history)

\* the tile turn number k aims at was revealed when that call began: it is
\* revealed in the turn before, the latest one at that moment
Reentered(gx, k) ==
    gx.history[k - 1].tiles[gx.width * gx.history[k].y + gx.history[k].x].clicked

\* C25: within one top-level reveal, no recursive ClickTile call made by
\* clickNeighbors aims at a tile that is revealed when the call begins (stated
\* over the turn history, which records every call of package mines)
C25_NoReentry ==
    (pkg = "mines" /\ InGridClick(call, g) /\ call.args[3] = FALSE)
    => \A k \in RecursiveTurns : ~Reentered(g, k)

-----------------------------------------------------------------------------
(* C26 *)

\* the grid as the last call found it: the tiles before the call, or, when the
\* call was the first move, the tiles it placed with nothing revealed or flagged
TilesBefore ==
    IF Placed(pre) THEN Tiles(pre)
    ELSE [i \in DOMAIN Tiles(g) |-> [ZeroTile EXCEPT !.value = Tiles(g)[i].value]]

\* the cells next to cell i
Around(gx, i) == NeighborCells(gx, i % Width(gx), i \div Width(gx))

RECURSIVE CascadeClosure(_)

\* the least set that contains R and, for each of its tiles numbered 0, every
\* neighbour that was unrevealed and unflagged before the call
CascadeClosure(R) ==
    LET more == UNION { { j \in Around(g, i) :
                            ~TilesBefore[j].clicked /\ ~TilesBefore[j].flagged } :
                        i \in { i \in R : TilesBefore[i].value = 0 } }
    IN  IF more \subseteq R THEN R ELSE CascadeClosure(R \cup more)

\* the last call was a reveal of an unrevealed, unflagged tile numbered 0 on a
\* board in progress
RevealedAZero ==
    /\ InGridClick(call, g)
    /\ call.args[3] = FALSE
    /\ Outcome(pre) = "in_progress"
    /\ LET tile == TilesBefore[Cell(g, call.args[1], call.args[2])] IN
       ~tile.clicked /\ ~tile.flagged /\ tile.value = 0

\* C26: a reveal of an unrevealed, unflagged tile numbered 0 reveals exactly the
\* least set R closed under "unrevealed, unflagged neighbour of a tile of R
\* numbered 0", changes no tile outside R, and leaves every tile of R numbered 0
\* with all its neighbours revealed or flagged
C26_CascadeIsClosure ==
    RevealedAZero =>
        LET R == CascadeClosure({Cell(g, call.args[1], call.args[2])}) IN
        /\ Revealed(g) = { i \in DOMAIN TilesBefore : TilesBefore[i].clicked } \cup R
        /\ \A i \in (DOMAIN Tiles(g)) \ R : Tiles(g)[i] = TilesBefore[i]
        /\ \A i \in R : Tiles(g)[i].value = 0
                        => Around(g, i) \subseteq (Revealed(g) \cup Flagged(g))

\* C27: every ClickTile call terminates.  A call that has begun returns (its
\* stack of ClickTile and clickNeighbors frames empties and the call has its
\* result), on every board and from every reachable state, and the recursion
\* is never deeper than one ClickTile with its clickNeighbors per tile of the
\* board, and one more.
C27_ClickTileTerminates ==
    /\ [](Len(stack) <= 2 * (Width(g) * Height(g) + 1))
    /\ (stack # <<>>) ~> (stack = <<>> /\ call.err # Running)

\* C27 witness: a ClickTile called by a clickNeighbors that was called by a
\* ClickTile called by a clickNeighbors is about to return
C27_Witness ==
    /\ Len(stack) >= 5
    /\ Top.fn = "ClickTile" /\ Top.pc = "wincheck"

\* C21: no call makes the engine index a cell outside 0..width*height-1 or
\* crash.  Whatever the coordinates and however often an action is repeated,
\* no step of ClickTile or clickNeighbors panics, a call that has returned
\* has returned nil or one of the errors of ClickTile (End and JSON return no
\* error), the tiles, once made, are the cells 0..width*height-1, and every
\* ClickTile that clickNeighbors calls aims inside the grid.
C21_NoPanic ==
    /\ call.err \in {NoErr, ErrX, ErrY, ErrNotActive, Running}
    /\ call.err = Running <=> stack # <<>>
    /\ call.op \in {"NewGame", "End", "JSON"} => call.err = NoErr
    /\ Placed(g) => DOMAIN Tiles(g) = 0..(Width(g) * Height(g) - 1)
    /\ \A i \in 2..Len(stack) : stack[i].x < Width(g) /\ stack[i].y < Height(g)

\* C21 witness: ClickTile outside the grid of a board with revealed tiles has
\* returned its error
C21_Witness ==
    /\ stack = <<>>
    /\ call.op = "ClickTile" /\ call.err \in {ErrX, ErrY}
    /\ Revealed(g) # {}

\* C21 witness: a chord on a revealed tile has run clickNeighbors and returned
C21_WitnessRepeated ==
    /\ stack = <<>>
    /\ call.op = "ClickTile" /\ call.err = NoErr /\ ~call.args[3]
    /\ InGridClick(call, pre)
    /\ Outcome(pre) = "in_progress"
    /\ Cell(pre, call.args[1], call.args[2]) \in Revealed(pre)
    /\ Revealed(g) # Revealed(pre)

\* the cells c and d of the grid of gx share an edge or a corner
Adjacent(gx, c, d) ==
    LET dx == (c % Width(gx)) - (d % Width(gx))
        dy == (c \div Width(gx)) - (d \div Width(gx))
    IN  /\ c # d
        /\ dx \in {-1, 0, 1}
        /\ dy \in {-1, 0, 1}

\* the grid of the first move: mineCount mined cells, the cell of the move not
\* among them, every other cell numbered with the mined cells adjacent to it
PlacedWell ==
    /\ DOMAIN Tiles(g) = 0..(Width(g) * Height(g) - 1)
    /\ Cardinality(Mined(g)) = Mines(g)
    /\ Cell(g, call.args[1], call.args[2]) \notin Mined(g)
    /\ \A c \in DOMAIN Tiles(g) \ Mined(g) :
         Tiles(g)[c].value = Cardinality({ d \in Mined(g) : Adjacent(g, c, d) })

\* C23: on the first accepted move at (x, y) the placement loop, with fair
\* draws, ends, and the grid then has exactly mineCount mined cells, none of
\* them (x, y), and on every cell without a mine the number of mined cells
\* among its neighbours in the grid, on 1-row, 1-column, square and
\* non-square boards.
C23_PlacementEndsWell ==
    /\ [](Placed(g) => PlacedWell)
    /\ [](stack # <<>> /\ Top.pc = "place" =>
            /\ Top.k = Cardinality(MinedByLoop(Top))
            /\ Cell(g, Top.x, Top.y) \notin MinedByLoop(Top))
    /\ (stack # <<>> /\ Top.pc = "place") ~> Placed(g)

\* C23 witness: the loop has placed two mines on a 3x2 board, one of them
\* beside the cell of the first move, and the grid is numbered
C23_Witness ==
    /\ Placed(g)
    /\ Width(g) = 3 /\ Height(g) = 2 /\ Mines(g) = 2
    /\ Tiles(g)[Cell(g, call.args[1], call.args[2])].value = 1

\* C23 witness: the same on a board of one row
C23_WitnessOneRow ==
    /\ Placed(g)
    /\ Height(g) = 1 /\ Mines(g) = 1
    /\ \E c \in DOMAIN Tiles(g) : Tiles(g)[c].value = 1

\* C22: the requests on one game are serialised.  No ClickTile is in progress
\* in two goroutines at once, and when no call is in progress the flag count
\* is the number of flagged tiles of the grid.
C22_RequestsSerialised ==
    /\ ~(stack # <<>> /\ other # <<>>)
    /\ (stack = <<>> /\ other = <<>>) => g.flags = Cardinality(Flagged(g))

-----------------------------------------------------------------------------
(* C32 *)

\* the last call was a reveal, on a board in progress, of a tile that was
\* neither revealed nor flagged and has no mine
RevealedASafeTile ==
    /\ InGridClick(call, g)
    /\ call.args[3] = FALSE
    /\ call.err = NoErr
    /\ Outcome(pre) = "in_progress"
    /\ Cell(g, call.args[1], call.args[2]) \notin Revealed(pre) \cup Flagged(pre)
    /\ Cell(g, call.args[1], call.args[2]) \notin Mined(g)

\* C32: a reveal of an unrevealed, unflagged tile without a mine never loses
\* the game, whatever flags are on the board and however far the cascade
\* spreads.
C32_SafeRevealNeverLoses == RevealedASafeTile => Outcome(g) # "lost"

-----------------------------------------------------------------------------
(* C33 *)

\* the mined tiles that are revealed
MinesRevealed(gx) == Mined(gx) \cap Revealed(gx)

\* C33: at most one mined tile is ever revealed, and unless End is called a
\* mined tile is revealed exactly when the game is lost: a lost game has a
\* revealed mine, the step that reveals a mine loses the game, a lost game
\* stays lost while End is not called, and once a mine is revealed no step,
\* of the same chord or of a later call, reveals another tile.
C33_OneMineRevealedIffLost ==
    /\ [](Cardinality(MinesRevealed(g)) <= 1)
    /\ [](Outcome(g) = "lost" => MinesRevealed(g) # {})
    /\ [][(MinesRevealed(g) = {} /\ MinesRevealed(g') # {}) => Outcome(g') = "lost"]_vars
    /\ [][(Outcome(g) = "lost" /\ call'.op # "End") => Outcome(g') = "lost"]_vars
    /\ [][MinesRevealed(g) # {} => Revealed(g') = Revealed(g)]_vars

\* C33 witness: a chord has revealed a mine and its clickNeighbors has called
\* ClickTile on the next neighbour, which is neither revealed nor flagged
C33_Witness ==
    /\ MinesRevealed(g) # {}
    /\ Len(stack) >= 3
    /\ stack[1].pc = "wincheck"
    /\ Cell(g, stack[1].x, stack[1].y) \in Revealed(pre)
    /\ Top.fn = "ClickTile" /\ Top.pc = "entry"
    /\ Cell(g, Top.x, Top.y) \notin Revealed(g) \cup Flagged(g)


-----------------------------------------------------------------------------
(* Two games of the map `games`: the handler looks one up by its uuid and   *)
(* calls it; the games have the same width and height                       *)

\* the largest number of cells of the two boards
MaxTwinCells == 4

InitTwin ==
    /\ pkg \in Packages
    /\ now = 1
    /\ \E w \in 1..MaxW, h \in 1..MaxH, m \in 0..MaxMines, m2 \in 0..MaxMines :
         /\ w * h <= MaxTwinCells
         /\ Create(w, h, m, 1).err = NoErr
         /\ Create(w, h, m2, 1).err = NoErr
         /\ g = Create(w, h, m, 1).g
         /\ twin = Create(w, h, m2, 1).g
         /\ call = [op |-> "NewGame", args |-> <<w, h, m>>, err |-> NoErr, view |-> Nil]
    /\ pre = Nil
    /\ stack = <<>>
    /\ other = <<>>

\* the next request names the other game
LookupOther ==
    /\ stack = <<>>
    /\ g # twin
    /\ g' = twin
    /\ twin' = g
    /\ UNCHANGED <<pkg, now, call, pre, stack, other>>

NextTwin == ClickTileCall \/ LookupOther

SpecTwin == InitTwin /\ [][NextTwin]_vars

\* the two boards are in progress and show the same to the player: the same
\* flagged cells, the same revealed cells and the same number on each revealed
\* cell, while their mines are elsewhere
SameVisible ==
    /\ Width(g) = Width(twin)
    /\ Height(g) = Height(twin)
    /\ Outcome(g) = "in_progress"
    /\ Outcome(twin) = "in_progress"
    /\ Flagged(g) = Flagged(twin)
    /\ Revealed(g) = Revealed(twin)
    /\ \A c \in Revealed(g) : Tiles(g)[c].value = Tiles(twin)[c].value
    /\ Mined(g) # Mined(twin)

\* C34: two boards in progress with the same dimensions, the same flagged set,
\* the same revealed set and the same number on every revealed cell, whose
\* mines are at different unrevealed cells, have views with the same grid
\* symbols, the same mine total and the same flag count
C34_ViewHidesUnrevealed ==
    SameVisible =>
        /\ View(g).grid = View(twin).grid
        /\ View(g).mines = View(twin).mines
        /\ View(g).flags = View(twin).flags


-----------------------------------------------------------------------------
(* The earlier package game of src/unnamed/part_002 (lines 1-337).  Its
   numberGrid has the same text in the second copy of the file (lines
   608-643); countFlags and setGridValue have the text of src/game/game.go. *)

\* NewGame(uid, w, h, m) at time t
legacy_NewGame(w, h, m, t) ==
    LET max == U16(w * h) IN
    IF U16(1 + max) < m THEN [g |-> Nil, err |-> ErrMines]
    ELSE [g |-> [totalMines |-> m, boardWidth |-> w, boardHeight |-> h, flags |-> 0,
                 grid |-> <<>>, startTime |-> t, endTime |-> 0],
          err |-> NoErr]

\* numberGrid(), the loops over j and i: the mines around (x, y), each read at w*y2 + x2
legacy_total(gg, x, y) ==
    Cardinality({ n \in Neighbors(gg.boardWidth, gg.boardHeight, x, y) :
                    MINE = gg.grid[gg.boardWidth * n[2] + n[1]].value })

\* the index numberGrid writes the total of (x, y) to
legacy_writeIndex(gg, x, y) == gg.boardHeight * y + x

RECURSIVE legacy_numberGridFrom(_, _)

\* numberGrid(), from step k of `for y < h { for x < w {`: y = k / w, x = k % w;
\* a write past the end of the grid panics and leaves the grid as it is then
legacy_numberGridFrom(gg, k) ==
    LET w == gg.boardWidth
        h == gg.boardHeight
    IN  IF k >= w * h THEN [g |-> gg, panic |-> FALSE]
        ELSE LET y == k \div w
                 x == k % w
                 idx == legacy_writeIndex(gg, x, y)
             IN  IF MINE = gg.grid[w * y + x].value
                 THEN legacy_numberGridFrom(gg, k + 1)
                 ELSE IF idx >= LenTiles(gg.grid)
                 THEN [g |-> gg, panic |-> TRUE]
                 ELSE CHOOSE r \in { legacy_numberGridFrom(numbered, k + 1) :
                                      numbered \in {[gg EXCEPT !.grid[idx].value =
                                                                legacy_total(gg, x, y)]} } : TRUE

\* numberGrid()
legacy_numberGrid(gg) == legacy_numberGridFrom(gg, 0)

\* addMinesToGrid(ignoreX, ignoreY) when the placement loop mined the cells M
legacy_addMinesToGrid(gg, ignoreX, ignoreY, M) ==
    legacy_numberGrid(
        game_setMines([gg EXCEPT !.grid = MakeTiles(U16(gg.boardHeight * gg.boardWidth))], M))

\* ClickTile, lines 93-104: the win check stamps endTime
legacy_CheckWin(gg, t) ==
    IF gg.endTime = 0
    THEN LET total == Cardinality({ i \in DOMAIN gg.grid :
                                      gg.grid[i].clicked \/ MINE = gg.grid[i].value })
         IN  IF total = LenTiles(gg.grid) THEN [gg EXCEPT !.endTime = t] ELSE gg
    ELSE gg

RECURSIVE legacy_ClickTile(_, _, _, _, _, _)
RECURSIVE legacy_clickNeighborsFrom(_, _, _, _, _)

\* clickNeighbors(x, y), from offset k on
legacy_clickNeighborsFrom(gg, x, y, k, t) ==
    IF k > 8 THEN gg
    ELSE LET x2 == x + OffI(k)
             y2 == y + OffJ(k)
         IN  IF (0 = OffI(k) /\ 0 = OffJ(k))
                \/ 0 > x2 \/ 0 > y2 \/ x2 >= gg.boardWidth \/ y2 >= gg.boardHeight
             THEN legacy_clickNeighborsFrom(gg, x, y, k + 1, t)
             ELSE LET tile == gg.grid[U16(gg.boardWidth * y2 + x2)] IN
                  IF ~tile.clicked /\ ~tile.flagged
                  THEN legacy_clickNeighborsFrom(legacy_ClickTile(gg, x2, y2, FALSE, {}, t).g,
                                                 x, y, k + 1, t)
                  ELSE legacy_clickNeighborsFrom(gg, x, y, k + 1, t)

\* clickNeighbors(x, y)
legacy_clickNeighbors(gg, x, y, t) == legacy_clickNeighborsFrom(gg, x, y, 0, t)

\* ClickTile, lines 68-92: the case dispatch on the tile
legacy_Dispatch(gg, x, y, flag, t) ==
    LET idx == U16(gg.boardWidth * y + x)
        tile == gg.grid[idx]
    IN  IF tile.clicked
        THEN IF ~flag /\ game_countFlags(gg, x, y) = tile.value
             THEN legacy_clickNeighbors(gg, x, y, t)
             ELSE gg
        ELSE IF ~tile.flagged
        THEN IF flag
             THEN [gg EXCEPT !.grid[idx].flagged = TRUE, !.flags = U16(@ + 1)]
             ELSE IF MINE = tile.value
                  THEN [gg EXCEPT !.grid[idx].clicked = TRUE, !.endTime = t]
                  ELSE IF 0 = tile.value
                       THEN legacy_clickNeighbors([gg EXCEPT !.grid[idx].clicked = TRUE], x, y, t)
                       ELSE [gg EXCEPT !.grid[idx].clicked = TRUE]
        ELSE IF tile.flagged /\ flag
        THEN [gg EXCEPT !.grid[idx].flagged = FALSE, !.flags = U16(@ - 1)]
        ELSE gg

\* ClickTile(x, y, flag) at time t, the placement loop mining M when it runs
legacy_ClickTile(gg, x, y, flag, M, t) ==
    IF gg.boardWidth <= x THEN [g |-> gg, err |-> ErrX]
    ELSE IF gg.boardHeight <= y THEN [g |-> gg, err |-> ErrY]
    ELSE LET r1 == IF 0 = LenTiles(gg.grid) THEN legacy_addMinesToGrid(gg, x, y, M)
                   ELSE [g |-> gg, panic |-> FALSE]
             g1 == r1.g
         IN  IF r1.panic THEN [g |-> g1, err |-> Panic]
             ELSE IF g1.endTime # 0 THEN [g |-> g1, err |-> ErrNotActive]
             ELSE [g |-> legacy_CheckWin(legacy_Dispatch(g1, x, y, flag, t), t), err |-> NoErr]

\* a game of the earlier package, made by NewGame
InitLegacy ==
    /\ pkg = "legacy"
    /\ now = 1
    /\ \E w \in 1..MaxW, h \in 1..MaxH, m \in 0..MaxMines :
         /\ w * h <= MaxCells
         /\ legacy_NewGame(w, h, m, 1).err = NoErr
         /\ g = legacy_NewGame(w, h, m, 1).g
         /\ call = [op |-> "NewGame", args |-> <<w, h, m>>, err |-> NoErr, view |-> Nil]
    /\ pre = Nil
    /\ stack = <<>>
    /\ other = <<>>
    /\ twin = Nil

\* a call ClickTile(x, y, flag) of the earlier package; the first one inside
\* the grid returns when its placement loop has mined totalMines cells
LegacyClickTileCall ==
    /\ now < MaxTime
    /\ \E c \in Coordinates(g), flag \in BOOLEAN :
         \E M \in (IF c[1] < Width(g) /\ c[2] < Height(g) /\ ~Placed(g)
                   THEN game_MineChoices(g, c[1], c[2]) ELSE {{}}) :
           LET r == legacy_ClickTile(g, c[1], c[2], flag, M, now + 1) IN
           /\ g' = r.g
           /\ call' = [op |-> "ClickTile", args |-> <<c[1], c[2], flag>>,
                       err |-> r.err, view |-> Nil]
    /\ pre' = g
    /\ now' = now + 1
    /\ UNCHANGED <<pkg, stack, other, twin>>

NextLegacy == LegacyClickTileCall

SpecLegacy == InitLegacy /\ [][NextLegacy]_vars

\* the call placed the mines of a board whose width is not its height
PlacedNonSquare ==
    /\ InGridClick(call, g)
    /\ ~Placed(pre)
    /\ Width(g) # Height(g)

\* C31: on a board whose width differs from its height, the numbering that
\* follows the placement writes no cell outside the grid and overwrites no
\* mine: the grid then has exactly mineCount mined cells, and every other
\* cell holds the number of mined cells around it
C31_NumberingOnNonSquare ==
    PlacedNonSquare =>
        /\ call.err # Panic
        /\ DOMAIN Tiles(g) = 0..(Width(g) * Height(g) - 1)
        /\ Cardinality(Mined(g)) = Mines(g)
        /\ \A c \in DOMAIN Tiles(g) \ Mined(g) :
             Tiles(g)[c].value = Cardinality({ d \in Mined(g) : Adjacent(g, c, d) })

=============================================================================
